---------------------------- MODULE Spec2Model ----------------------------
(***************************************************************************)
(* Judgment-analysis pipeline of server/services/analysisService.ts:       *)
(* AnalysisService.runFullAnalysis -> analyzeJudgment -> per step          *)
(* selectRelevantChunks, generateAnalysisPrompt, callLLMWithRetry,         *)
(* parseAndValidateResponse, extractAnchors, and the analysis status       *)
(* record written through storage.updateAnalysis.                          *)
(*                                                                         *)
(* Around it: the POST /api/analysis/judgment handler and its background   *)
(* task (variable job), PDFExtractionService's choice between digital text *)
(* and OCR (select), extractWithOCR with its temporary directory and       *)
(* worker (ocr, clock, fs), and ChunkingService.chunkPages (chunkJob).     *)
(*                                                                         *)
(* JSON values are records [t, v, kids]: t is the JavaScript kind ("null", *)
(* "num", "str", "bool", "arr", "obj"), v the literal of a primitive, kids *)
(* the own properties in insertion order (Object.entries order); the       *)
(* properties of an array are its indices "0", "1", ...                    *)
(***************************************************************************)
EXTENDS Integers, Sequences, FiniteSets, TLC

VARIABLES
    offline,       \* isOffline(): OFFLINE_MODE of the process
    chunks,        \* chunks argument of analyzeJudgment: the chunk texts
    pc,            \* position of runFullAnalysis
    runState,      \* state of the analyzeJudgment run
    stepIdx,       \* index in analysisStepOrder of the step of the for loop
    phase,         \* position inside the loop body
    attempt,       \* callLLMWithRetry: loop variable attempt
    calls,         \* openai.chat.completions.create calls made for the step
    promptArgs,    \* arguments of the last generateAnalysisPrompt call
    response,      \* value returned by callLLMWithRetry (choices[0].message)
    stepResults,   \* analyzeJudgment: stepResults
    stepContext,   \* analyzeJudgment: stepContext
    totalTokens,   \* analyzeJudgment: totalTokens
    outcome,       \* how analyzeJudgment ended: value returned or error thrown
    caught,        \* error caught by runFullAnalysis
    record,        \* the analysis status record {status, result, error}
    started,       \* steps whose loop body has been entered
    warned,        \* console.warn of parseAndValidateResponse: <<step, field>>
    reported,      \* sum of usage.total_tokens the backend reported on successful calls
    onlyNonJson,   \* every backend call so far returned non-JSON text
    varied,        \* successful backend responses that differ from DefaultResponse
    anchorJob,     \* extractAnchors applied to a standalone value
    job,           \* POST /api/analysis/judgment: the handler and its background task
    select,        \* extractFromBuffer applied to a parsed document
    ocr,           \* extractWithOCR: the state of each call in progress
    clock,         \* Date.now()
    fs,            \* the directories under os.tmpdir()
    chunkJob,      \* chunkPages applied to a list of pages
    retry,         \* callLLMWithRetry: one call with its attempts and timer
    pick           \* selectRelevantChunks applied to a chunk list and a step

vars == <<offline, chunks, pc, runState, stepIdx, phase, attempt, calls,
          promptArgs, response, stepResults, stepContext, totalTokens, outcome,
          caught, record, started, warned, reported, onlyNonJson, varied,
          anchorJob, job, select, ocr, clock, fs, chunkJob, retry, pick>>

\* the variables of the extraction and chunking services and of a lone
\* callLLMWithRetry
sideVars == <<select, ocr, clock, fs, chunkJob, retry, pick>>

\* the variables of runFullAnalysis and analyzeJudgment
runVarsOfRun == <<offline, chunks, pc, runState, stepIdx, phase, attempt, calls,
                  promptArgs, response, stepResults, stepContext, totalTokens,
                  outcome, caught, record, started, warned, reported, onlyNonJson,
                  varied>>

runVars == <<offline, chunks, pc, runState, stepIdx, phase, attempt, calls,
             promptArgs, response, stepResults, stepContext, totalTokens,
             outcome, caught, record, started, warned, reported, onlyNonJson,
             varied, job, sideVars>>

-----------------------------------------------------------------------------
(* Bounds of the model *)

\* the chunk list is empty or holds MaxChunks chunks
MaxChunks == 1
\* successful backend responses per run that differ from DefaultResponse
MaxVaried == 1
\* arrays of the standalone extractAnchors inputs hold 0..MaxArrayLen items
MaxArrayLen == 1
\* parsed documents have 1..MaxPages pages
MaxPages == 2
\* the text of a parsed document has 1..MaxLines lines
MaxLines == 2
\* the documents of the OCR calls have 1..MaxOcrPages pages
MaxOcrPages == 2
\* Date.now() advances by at most MaxClock milliseconds
MaxClock == 1
\* operations of the OCR calls (mkdir, pdfParse, createWorker, convert,
\* recognize, terminate, rm) that fail, over all calls
MaxFaults == 2
\* chunkPages is handed 0..MaxChunkPages pages
MaxChunkPages == 2
\* chunkPages is called up to MaxChunkCalls times on the same pages
MaxChunkCalls == 2
\* the time callLLMWithRetry is followed for, in seconds
MaxTime == 5
\* selectRelevantChunks is applied to lists of 0..MaxListLen chunks
MaxListLen == 45

(* Program constants *)

\* AnalysisService.MAX_CHUNKS_PER_STEP
MAX_CHUNKS_PER_STEP == 20
\* callLLMWithRetry: default value of the parameter retries
RETRIES == 2
\* PDFExtractionService.MIN_TEXT_LENGTH
MIN_TEXT_LENGTH == 50
\* ChunkingService
MAX_CHUNK_SIZE == 1000
MIN_CHUNK_SIZE == 200
OVERLAP_SIZE == 100

-----------------------------------------------------------------------------
(* Sequence helpers *)

Range(s) == {s[i] : i \in 1..Len(s)}

Max(a, b) == IF a >= b THEN a ELSE b

Min(a, b) == IF a <= b THEN a ELSE b

RECURSIVE Join(_, _)
Join(texts, sep) ==
    IF Len(texts) = 0 THEN ""
    ELSE IF Len(texts) = 1 THEN texts[1]
    ELSE texts[1] \o sep \o Join(Tail(texts), sep)

\* String.prototype.includes
Includes(s, sub) ==
    \E i \in 1..(Len(s) - Len(sub) + 1) : SubSeq(s, i, i + Len(sub) - 1) = sub

\* Array.prototype.slice(start, end) with 0-based, non-negative arguments
Slice(s, start, end) ==
    LET lo == Min(start, Len(s))
        hi == Min(end, Len(s))
    IN  IF hi <= lo THEN <<>> ELSE SubSeq(s, lo + 1, hi)

-----------------------------------------------------------------------------
(* JSON values *)

JNull == [t |-> "null", v |-> "null", kids |-> <<>>]
JNum(lit) == [t |-> "num", v |-> lit, kids |-> <<>>]
JStr(s) == [t |-> "str", v |-> s, kids |-> <<>>]
Kid(k, val) == [k |-> k, val |-> val]
JObj(kids) == [t |-> "obj", v |-> "", kids |-> kids]
JArr(items) ==
    [t |-> "arr", v |-> "",
     kids |-> [i \in 1..Len(items) |-> Kid(ToString(i - 1), items[i])]]

\* JavaScript truthiness: null, 0, "" and false are falsy
Truthy(value) ==
    ~ \/ value.t = "null"
      \/ (value.t = "num" /\ value.v = "0")
      \/ (value.t = "str" /\ value.v = "")
      \/ (value.t = "bool" /\ value.v = "false")

\* typeof value === 'object' for a non-null value
IsObject(value) == value.t \in {"obj", "arr"}

Keys(value) == {value.kids[i].k : i \in 1..Len(value.kids)}

\* key in value, for an object or array
HasKey(value, key) ==
    \/ key \in Keys(value)
    \/ (value.t = "arr" /\ key = "length")

\* value[key] of an own property
Get(value, key) ==
    LET i == CHOOSE j \in 1..Len(value.kids) : value.kids[j].k = key
    IN  value.kids[i].val

\* obj[key] = val on a plain object: replaces in place or appends
ObjSet(kids, key, val) ==
    IF \E i \in 1..Len(kids) : kids[i].k = key
    THEN [i \in 1..Len(kids) |-> IF kids[i].k = key THEN Kid(key, val) ELSE kids[i]]
    ELSE Append(kids, Kid(key, val))

-----------------------------------------------------------------------------
(* The step catalog (analysisPrompts.ts) *)

analysisStepOrder ==
    <<"metadata", "facts", "timeline", "issues", "arguments",
      "ratio", "obiter", "statutes", "precedents", "summary">>

NumSteps == Len(analysisStepOrder)

\* the keys of analysisPrompts
TemplateSteps ==
    {"metadata", "facts", "timeline", "issues", "arguments", "ratio", "obiter",
     "statutes", "precedents", "summary"}

\* analysisPrompts[step].requiredFields
requiredFields(step) ==
    CASE step = "metadata" ->
           <<"caseName", "citation", "court", "bench", "judges", "date", "anchors">>
      [] step = "facts" ->
           <<"admittedFacts", "disputedFacts", "proceduralHistory", "parties">>
      [] step = "timeline" -> <<"events">>
      [] step = "issues" -> <<"mainIssues", "subsidiaryIssues", "issuesFraming">>
      [] step = "arguments" ->
           <<"appellantArguments", "respondentArguments", "courtAnalysis">>
      [] step = "ratio" -> <<"ratioStatements", "holdings", "legalTests">>
      [] step = "obiter" -> <<"obiterStatements", "dicta", "hypotheticals">>
      [] step = "statutes" ->
           <<"statutes", "ipcToBns", "constitutionalProvisions", "interpretationNotes">>
      [] step = "precedents" ->
           <<"precedents", "bindingPrecedents", "persuasivePrecedents", "overruledCases">>
      [] step = "summary" ->
           <<"headnote", "keyTakeaways", "practicalImplications", "relatedAreas",
             "verdict", "anchors">>

\* analysisPrompts[step].userPromptTemplate: the placeholders of the template
\* in the order of its text, which begins with the instructions of the step
userPromptTemplateLookingAhead(step) == <<"judgmentChunks", "summary">>
userPromptTemplate(step) ==
    <<"judgmentChunks">> \o
    CASE step = "facts" -> <<"metadata">>
      [] step \in {"timeline", "issues"} -> <<"facts">>
      [] step \in {"arguments", "ratio"} -> <<"issues">>
      [] step = "obiter" -> <<"ratio">>
      [] step = "summary" ->
           <<"metadata", "facts", "timeline", "issues", "arguments", "ratio",
             "obiter", "statutes", "precedents">>
      [] OTHER -> <<>>

\* the user prompt as its parts: the instructions of the step, then for every
\* placeholder of the template what the replace calls leave in its place: the
\* chunk text for {judgmentChunks}, for a key of the context its value (a
\* string as it is, any other value as JSON.stringify(value, null, 2), which
\* the part names by the value), and the placeholder itself for a key the
\* context does not hold
UserPrompt(step, chunksText, context) ==
    LET holes == userPromptTemplate(step)
        part(key) ==
            IF key = "judgmentChunks" THEN [part |-> "text", text |-> chunksText]
            ELSE IF \E i \in 1..Len(context) : context[i].k = key
            THEN LET value == Get([kids |-> context], key)
                 IN  IF value.t = "str" THEN [part |-> "text", text |-> value.v]
                     ELSE [part |-> "json", key |-> key, value |-> value]
            ELSE [part |-> "placeholder", key |-> key]
    IN  <<[part |-> "instructions", step |-> step]>>
        \o [i \in 1..Len(holes) |-> part(holes[i])]

\* generateAnalysisPrompt(step, chunksText, stepContext): the three arguments
\* and the user prompt built from them
generateAnalysisPrompt(step, chunksText, context) ==
    [step |-> step, chunksText |-> chunksText, context |-> context,
     user |-> UserPrompt(step, chunksText, context)]

NoPrompt == [step |-> "", chunksText |-> "", context |-> <<>>, user |-> <<>>]

-----------------------------------------------------------------------------
(* AnalysisService.selectRelevantChunks *)

selectFirstChunks(cs, step) == Slice(cs, 0, MAX_CHUNKS_PER_STEP)
selectRelevantChunks(cs, step) ==
    IF step \in {"metadata", "summary"}
    THEN Slice(cs, 0, MAX_CHUNKS_PER_STEP)
    ELSE IF step \in {"facts", "timeline"}
    THEN LET start == (Len(cs) * 2) \div 10
         IN  Slice(cs, start, start + MAX_CHUNKS_PER_STEP)
    ELSE IF step \in {"ratio", "obiter", "precedents"}
    THEN LET start == Max(0, Len(cs) - MAX_CHUNKS_PER_STEP)
         IN  Slice(cs, start, Len(cs))
    ELSE LET start == Max(0, (Len(cs) - MAX_CHUNKS_PER_STEP) \div 2)
         IN  Slice(cs, start, start + MAX_CHUNKS_PER_STEP)

\* a selectRelevantChunks that has not been applied
NoPick == [step |-> "", applied |-> FALSE, result |-> <<>>]

\* relevantChunks.map(c => c.text).join('\n\n')
ChunksText(cs, step) == Join(selectRelevantChunks(cs, step), "\n\n")

\* The chunk lists of the model: chunk i has the text "Si.", one sentence
\* without white space
ChunkList(n) == [i \in 1..n |-> "S" \o ToString(i) \o "."]

-----------------------------------------------------------------------------
(* AnalysisService.extractAnchors *)

\* 'anchor' in value && value.anchor
CarriesAnchorLax(value) == HasKey(value, "anchor")
CarriesAnchor(value) == HasKey(value, "anchor") /\ Truthy(Get(value, "anchor"))

\* `${path}[${index}]` for an array item, path ? `${path}.${key}` : key for a property
ChildPath(value, path, key) ==
    IF value.t = "arr" THEN path \o "[" \o key \o "]"
    ELSE IF path # "" THEN path \o "." \o key
    ELSE key

RECURSIVE extractFromValue(_, _)
RECURSIVE extractFromKids(_, _, _)

\* value.forEach / Object.entries(value).forEach from the i-th property on
extractFromKids(value, path, i) ==
    IF i > Len(value.kids) THEN <<>>
    ELSE extractFromValue(value.kids[i].val, ChildPath(value, path, value.kids[i].k))
         \o extractFromKids(value, path, i + 1)

extractFromValue(value, path) ==
    IF Truthy(value) /\ IsObject(value)
    THEN (IF CarriesAnchor(value)
          THEN <<[path |-> path, anchor |-> Get(value, "anchor")]>>
          ELSE <<>>)
         \o extractFromKids(value, path, 1)
    ELSE <<>>

extractAnchors(result) == extractFromValue(result, "")

-----------------------------------------------------------------------------
(* Errors: what a throw carries *)

\* new Error(message)
Err(message) == [isError |-> TRUE, message |-> message]

\* a thrown value that is not an Error
NonError == [isError |-> FALSE, message |-> ""]

NoError == [isError |-> FALSE, message |-> "<none>"]

\* error instanceof Error ? error.message : fallback
MessageOf(error, fallback) == IF error.isError THEN error.message ELSE fallback

-----------------------------------------------------------------------------
(* JSON.parse on the texts a backend of the model returns *)

TimelineText == "{\"events\":[{\"what\":\"filed\",\"anchor\":{\"page\":1,\"paragraph\":2}}]}"
EmptyObjectText == "{}"
FalsyAnchorText == "{\"anchor\":null,\"parties\":{\"appellant\":{\"anchor\":\"p1\"},\"respondent\":{\"anchor\":0}}}"
ArrayText == "[{\"anchor\":\"p3\"}]"
NumberText == "5"
NullText == "null"
ProseText == "Sorry, I cannot help with that."

JsonTexts ==
    {TimelineText, EmptyObjectText, FalsyAnchorText, ArrayText, NumberText, NullText}

\* the value JSON.parse returns for a text of JsonTexts
JsonValueOf(text) ==
    CASE text = TimelineText ->
           JObj(<<Kid("events",
                      JArr(<<JObj(<<Kid("what", JStr("filed")),
                                    Kid("anchor", JObj(<<Kid("page", JNum("1")),
                                                         Kid("paragraph", JNum("2"))>>))>>)>>))>>)
      [] text = EmptyObjectText -> JObj(<<>>)
      [] text = FalsyAnchorText ->
           JObj(<<Kid("anchor", JNull),
                  Kid("parties",
                      JObj(<<Kid("appellant", JObj(<<Kid("anchor", JStr("p1"))>>)),
                             Kid("respondent", JObj(<<Kid("anchor", JNum("0"))>>))>>))>>)
      [] text = ArrayText -> JArr(<<JObj(<<Kid("anchor", JStr("p3"))>>)>>)
      [] text = NumberText -> JNum("5")
      [] text = NullText -> JNull

\* JSON.parse(content): the value, or the SyntaxError it throws
JSONParse(text) ==
    IF text \in JsonTexts
    THEN [ok |-> TRUE, value |-> JsonValueOf(text), error |-> NoError]
    ELSE [ok |-> FALSE, value |-> JNull,
          error |-> Err("Unexpected token in JSON at position 0")]

\* the required fields of the step that `field in parsed` finds missing
MissingFields(parsed, step) ==
    {f \in Range(requiredFields(step)) : ~HasKey(parsed, f)}

\* AnalysisService.parseAndValidateResponse(content, step): the value returned
\* with the warnings logged, or the error thrown. content is
\* [present, text]; `field in parsed` throws a TypeError on a primitive.
parseAndValidateStrict(content, step) ==
    LET p == JSONParse(content.text)
    IN  IF content.present /\ content.text # "" /\ p.ok /\ IsObject(p.value)
           /\ MissingFields(p.value, step) = {}
        THEN [ok |-> TRUE, value |-> p.value, warnings |-> {}, error |-> NoError]
        ELSE [ok |-> FALSE, value |-> JNull, warnings |-> {},
              error |-> Err("Failed to parse JSON response for step " \o step)]
parseAndValidateLenient(content, step) ==
    LET p == JSONParse(content.text)
    IN  [ok |-> TRUE,
         value |-> IF content.present /\ content.text # "" /\ p.ok /\ IsObject(p.value)
                   THEN p.value ELSE JObj(<<>>),
         warnings |-> {}, error |-> NoError]
parseAndValidateResponse(content, step) ==
    IF ~content.present \/ content.text = ""
    THEN [ok |-> FALSE, value |-> JNull, warnings |-> {},
          error |-> Err("No content in LLM response for step " \o step)]
    ELSE LET p == JSONParse(content.text)
             inner == IF ~p.ok THEN p.error
                      ELSE Err("Cannot use 'in' operator to search for '"
                               \o requiredFields(step)[1] \o "' in " \o p.value.v)
         IN  IF p.ok /\ IsObject(p.value)
             THEN [ok |-> TRUE, value |-> p.value,
                   warnings |-> {<<step, f>> : f \in MissingFields(p.value, step)},
                   error |-> NoError]
             ELSE [ok |-> FALSE, value |-> JNull, warnings |-> {},
                   error |-> Err("Failed to parse JSON response for step " \o step
                                 \o ": " \o MessageOf(inner, "Invalid JSON"))]

-----------------------------------------------------------------------------
(* offlineAnalysisForStep (offline.ts), on chunk texts that are single       *)
(* sentences without white space and match none of the guess patterns      *)

\* chunksText.slice(0, 500).replace(/\s+/g, ' ').trim(): the selected texts are
\* joined by "\n\n", which the replace turns into one space
Preview(cs, step) == Join(selectRelevantChunks(cs, step), " ")

\* extractBullets(preview, n): the first n sentences, here the first n texts
extractBullets(cs, step, n) == Slice(selectRelevantChunks(cs, step), 0, n)

StrItems(texts) == [i \in 1..Len(texts) |-> JStr(texts[i])]

\* the scaffold as the switch left it
FillNothing(kids, step) == kids
\* base[f] = null for every required field not in base (no list of required
\* fields names a field twice)
FillRequired(kids, step) ==
    LET present == {kids[j].k : j \in 1..Len(kids)}
        Absent(f) == f \notin present
        missing == SelectSeq(requiredFields(step), Absent)
    IN  kids \o [i \in 1..Len(missing) |-> Kid(missing[i], JNull)]

offlineAnalysisForStep(step, cs, prior) ==
    LET bullets(n) == extractBullets(cs, step, n)
        base == <<Kid("step", JStr(step)),
                  Kid("anchor", JStr("offline:" \o step)),
                  Kid("notes", JStr("Offline placeholder generated locally.")),
                  Kid("contextPreview", JStr(Preview(cs, step))),
                  Kid("derivedFrom",
                      JArr([i \in 1..Len(prior) |-> JStr(prior[i].k)]))>>
        specific ==
            CASE step = "metadata" ->
                   <<Kid("caseTitle", JNull), Kid("court", JNull), Kid("date", JNull)>>
              [] step = "summary" ->
                   <<Kid("brief", JStr("This is a brief offline summary scaffold.")),
                     Kid("keyPoints", JArr(StrItems(bullets(3))))>>
              [] step = "facts" -> <<Kid("facts", JArr(StrItems(bullets(5))))>>
              [] step = "timeline" ->
                   <<Kid("events",
                         JArr([i \in 1..Len(bullets(4)) |->
                                 JObj(<<Kid("when", JStr("T" \o ToString(i))),
                                        Kid("what", JStr(bullets(4)[i]))>>)]))>>
              [] step = "issues" ->
                   <<Kid("issues",
                         JArr([i \in 1..Len(bullets(3)) |->
                                 JObj(<<Kid("question", JStr(bullets(3)[i]))>>)]))>>
              [] step = "ratio" -> <<Kid("ratioDecidendi", JArr(StrItems(bullets(2))))>>
              [] step = "obiter" -> <<Kid("observations", JArr(StrItems(bullets(2))))>>
              [] step = "precedents" ->
                   <<Kid("citations", JArr(<<JObj(<<Kid("cite", JNull)>>)>>))>>
              [] OTHER -> <<Kid("details", JArr(StrItems(bullets(3))))>>
    IN  JObj(FillRequired(base \o specific, step))

-----------------------------------------------------------------------------
(* The generation backend: openai.chat.completions.create *)

Content(present, text) == [present |-> present, text |-> text]
Usage(present, n) == [present |-> present, total_tokens |-> n]

\* a completion { choices: [{ message: { role, content } }], usage }
Completion(content, usage) == [content |-> content, usage |-> usage]

DefaultResponse == Completion(Content(TRUE, TimelineText), Usage(TRUE, 7))

BackendContents ==
    {Content(FALSE, "")}
    \cup {Content(TRUE, t) : t \in JsonTexts \cup {"", ProseText}}

\* every content with a reported usage, and the default content without one
BackendResponses ==
    {Completion(c, Usage(TRUE, 7)) : c \in BackendContents}
    \cup {Completion(DefaultResponse.content, Usage(FALSE, 0))}

\* what a failed call throws: an Error of the client, a value that is no Error,
\* or the TypeError of response.choices[0].message on a completion without choices
BackendErrors ==
    {Err("Connection error."), NonError,
     Err("Cannot read properties of undefined (reading 'message')")}

\* response.choices[0].message: the message carries role and content, the
\* usage stays on the completion
ChoiceMessage(r) == [role |-> "assistant", content |-> r.content]

NoMessage == [role |-> "", content |-> Content(FALSE, "")]

\* (response as any).usage?.total_tokens || 0
tokensOf(message) ==
    IF "usage" \in DOMAIN message /\ message.usage.present
    THEN message.usage.total_tokens
    ELSE 0

\* a returned text that is not JSON
IsNonJsonText(content) ==
    content.present /\ content.text # "" /\ ~JSONParse(content.text).ok

-----------------------------------------------------------------------------
(* Results, outcomes and the status record *)

\* AnalysisService.MODEL
MODEL == "openai/gpt-4o-mini"

\* the AnalysisStepResult stored for a step (the timestamp is left out)
StepResult(step, parsed, model, tokens) ==
    [step |-> step, result |-> parsed, anchors |-> extractAnchors(parsed),
     model |-> model, tokensUsed |-> tokens]

\* stepResults[step] = {...}
WithResultMiskeyed(results, step, r) == ObjSet(results, "step", r)
WithResult(results, step, r) == ObjSet(results, step, r)

\* stepContext[step] = parsedResult
WithContextDropped(context, step, parsed) == context
WithContext(context, step, parsed) == ObjSet(context, step, parsed)

NullResult == [null |-> TRUE, steps |-> <<>>, summary |-> JNull, totalTokensUsed |-> 0]

\* the CompleteAnalysisResult analyzeJudgment returns (completedAt is left out)
CompleteAnalysisResult(results, total) ==
    [null |-> FALSE,
     steps |-> results,
     summary |-> IF \E i \in 1..Len(results) : results[i].k = "summary"
                 THEN LET r == (CHOOSE x \in Range(results) : x.k = "summary").val.result
                      IN  IF Truthy(r) THEN r ELSE JNull
                 ELSE JNull,
     totalTokensUsed |-> total]

NoOutcome == [kind |-> "none", value |-> NullResult, error |-> NoError]

\* throw new Error(`Analysis step '${step}' failed: ${...}`)
StepFailure(step, error) ==
    Err("Analysis step '" \o step \o "' failed: " \o MessageOf(error, "Unknown error"))

NoText == [null |-> TRUE, text |-> ""]
Text(t) == [null |-> FALSE, text |-> t]

\* storage.updateAnalysis: { ...existing, ...updates }
updateAnalysisIgnored(rec, updates) == rec
updateAnalysisStatusOnly(rec, updates) == [rec EXCEPT !.status = updates.status]
updateAnalysis(rec, updates) ==
    [f \in DOMAIN rec |-> IF f \in DOMAIN updates THEN updates[f] ELSE rec[f]]

\* what a failed storage call throws
StorageErrors == {Err("Analysis not found")}

-----------------------------------------------------------------------------
(* PDFExtractionService: digital extraction and the choice of the method *)

\* String.prototype.charAt with a 1-based index
CharAt(s, i) == SubSeq(s, i, i)

\* String.prototype.split(sep) for a separator of one character
RECURSIVE SplitOn(_, _)
SplitOn(text, sep) ==
    IF \E i \in 1..Len(text) : CharAt(text, i) = sep
    THEN LET i == CHOOSE k \in 1..Len(text) :
                      /\ CharAt(text, k) = sep
                      /\ \A j \in 1..(k - 1) : CharAt(text, j) # sep
         IN  <<SubSeq(text, 1, i - 1)>> \o SplitOn(SubSeq(text, i + 1, Len(text)), sep)
    ELSE <<text>>

\* Math.floor(a / b)
FloorDiv(a, b) == a \div b
\* Math.ceil(a / b) for a >= 0 and b > 0
CeilDiv(a, b) == (a + b - 1) \div b

\* what pdf-parse returns: data.text and data.numpages
PdfData(text, numpages) == [text |-> text, numpages |-> numpages]

PageContent(pageNumber, text, method) ==
    [pageNumber |-> pageNumber, text |-> text, method |-> method]

\* extractDigitalText: the lines of data.text dealt out to numpages pages
extractDigitalText(data) ==
    LET lines == SplitOn(data.text, "\n")
        ceil == CeilDiv(Len(lines), data.numpages)
        linesPerPage == IF ceil = 0 THEN 1 ELSE ceil
        pageText(i) == Join(Slice(lines, i * linesPerPage,
                                  Min((i + 1) * linesPerPage, Len(lines))), "\n")
    IN  [pages |-> [n \in 1..data.numpages |-> PageContent(n, pageText(n - 1), "digital")],
         totalPages |-> data.numpages]

\* pages.reduce((sum, page) => sum + page.text.length, 0)
RECURSIVE TotalText(_)
TotalText(pages) ==
    IF Len(pages) = 0 THEN 0 ELSE Len(pages[1].text) + TotalText(Tail(pages))

\* extractFromBuffer: totalText > this.MIN_TEXT_LENGTH * digitalResult.totalPages
AcceptsDigitalAtThreshold(totalText, totalPages) ==
    totalText >= MIN_TEXT_LENGTH * totalPages
AcceptsDigital(totalText, totalPages) == totalText > MIN_TEXT_LENGTH * totalPages

\* extractFromBuffer: the extraction method it goes on with
SelectedMethodAlwaysOCR(digitalResult) == "ocr"
SelectedMethod(digitalResult) ==
    IF AcceptsDigital(TotalText(digitalResult.pages), digitalResult.totalPages)
    THEN "digital" ELSE "ocr"

\* extractFromPath: throw new Error(`Failed to extract PDF: ${...}`)
ExtractFailure(error) ==
    Err("Failed to extract PDF: " \o MessageOf(error, "Unknown error"))

\* a text of n characters
RECURSIVE Rep(_, _)
Rep(c, n) ==
    IF n = 0 THEN ""
    ELSE LET half == Rep(c, n \div 2)
         IN  half \o half \o (IF n % 2 = 1 THEN c ELSE "")

\* the lines of the parsed documents: around a quarter, a half and the whole
\* of MIN_TEXT_LENGTH, and twice that
LineTexts == {Rep("x", n) : n \in {0, 24, 25, 49, 50, 51, 99, 100, 101}}

\* parsed documents of 1..MaxLines lines and 1..MaxPages pages
ParsedDocuments ==
    {PdfData(Join(ls, "\n"), n) :
        ls \in UNION {[1..k -> LineTexts] : k \in 1..MaxLines}, n \in 1..MaxPages}

NoSelection == [data |-> PdfData("", 1), applied |-> FALSE, pages |-> <<>>,
                totalPages |-> 0, method |-> "none", error |-> NoError]

-----------------------------------------------------------------------------
(* PDFExtractionService.extractWithOCR: the values of a call *)

\* join(tmpdir(), `pdf-ocr-${Date.now()}`)
TempDirAt(now) == "/tmp/pdf-ocr-" \o ToString(now)

NoDir == ""

NoPending == [kind |-> "none", error |-> NoError]
\* the completion a finally block holds back while it runs
Returning == [kind |-> "return", error |-> NoError]
Throwing(error) == [kind |-> "throw", error |-> error]

\* throw new Error(`Failed to convert page ${pageNum} to image`)
NoImage(pageNum) == Err("Failed to convert page " \o ToString(pageNum) \o " to image")

MkdirErrors == {Err("EACCES: permission denied, mkdir")}
PdfParseErrors == {Err("Invalid PDF structure")}
WorkerErrors == {Err("createWorker failed")}
ConvertErrors == {Err("convert failed")}
RecognizeErrors == {Err("recognize failed")}
TerminateErrors == {Err("terminate failed")}

\* ocrResult.data.text of a page
OcrText(pageNum) == "text of page " \o ToString(pageNum)

NoExtraction == [returned |-> FALSE, pages |-> <<>>, totalPages |-> 0,
                 extractionMethod |-> "none"]

\* extractFromBuffer: { ...ocrResult, extractionMethod: 'ocr', metadata }
OcrExtractionLastFirst(pages, totalPages) ==
    [returned |-> TRUE, pages |-> [i \in 1..Len(pages) |-> pages[Len(pages) + 1 - i]],
     totalPages |-> totalPages, extractionMethod |-> "ocr"]
OcrExtraction(pages, totalPages) ==
    [returned |-> TRUE, pages |-> pages, totalPages |-> totalPages,
     extractionMethod |-> "ocr"]

\* a call of extractFromPath whose document of numpages pages has come to
\* the OCR fallback; touched are the pages handed to convert, failedPage the
\* page whose conversion or recognition failed, created whether mkdir has
\* resolved, rm what became of the removal, faults the operations of the call
\* that failed
IdleCall(numpages) ==
    [at |-> "idle", numpages |-> numpages, tempDir |-> NoDir, totalPages |-> 0,
     pageNum |-> 0, pages |-> <<>>, worker |-> "none", pending |-> NoPending,
     result |-> NoExtraction, error |-> NoError, touched |-> {}, failedPage |-> 0,
     created |-> FALSE, rm |-> "no", faults |-> 0]

\* a page fails inside the inner try: the loop is left for the finally blocks
OnPageFailureSkipping(call, error) ==
    IF call.pageNum + 1 <= call.totalPages
    THEN [call EXCEPT !.at = "convert", !.pageNum = call.pageNum + 1,
                      !.touched = call.touched \cup {call.pageNum + 1},
                      !.failedPage = call.pageNum]
    ELSE [call EXCEPT !.at = "terminate", !.pending = Returning,
                      !.failedPage = call.pageNum]
OnPageFailure(call, error) ==
    [call EXCEPT !.at = "terminate", !.pending = Throwing(error),
                 !.failedPage = call.pageNum]

\* createWorker rejects inside the outer try: the outer finally runs
OnWorkerFailureOutsideTry(call, error) ==
    [call EXCEPT !.at = "thrown", !.error = ExtractFailure(error)]
OnWorkerFailure(call, error) ==
    [call EXCEPT !.at = "cleanup", !.pending = Throwing(error)]

-----------------------------------------------------------------------------
(* ChunkingService: paragraphs *)

\* the characters \s matches and trim() removes, of those the texts hold
IsSpace(ch) == ch \in {" ", "\n", "\t", "\r"}

Digits == {"0", "1", "2", "3", "4", "5", "6", "7", "8", "9"}
LowerCase == {"a", "b", "c", "d", "e", "f", "g", "h", "i", "j", "k", "l", "m",
              "n", "o", "p", "q", "r", "s", "t", "u", "v", "w", "x", "y", "z"}
UpperCase == {"A", "B", "C", "D", "E", "F", "G", "H", "I", "J", "K", "L", "M",
              "N", "O", "P", "Q", "R", "S", "T", "U", "V", "W", "X", "Y", "Z"}

\* String.prototype.substring(start, end) with 0 <= start <= end <= length
Substring(text, start, end) == SubSeq(text, start + 1, end)

\* the least element of a non-empty set of numbers
Least(S) == CHOOSE x \in S : \A y \in S : x <= y

\* String.prototype.trim
Trim(text) ==
    LET n == Len(text)
        Solid(i) == ~IsSpace(CharAt(text, i))
    IN  IF \A i \in 1..n : ~Solid(i) THEN ""
        ELSE SubSeq(text,
                    CHOOSE i \in 1..n : Solid(i) /\ \A j \in 1..(i - 1) : ~Solid(j),
                    CHOOSE i \in 1..n : Solid(i) /\ \A j \in (i + 1)..n : ~Solid(j))

\* p.trim().length > 0
AnyText(text) == TRUE
NonBlank(text) == \E i \in 1..Len(text) : ~IsSpace(CharAt(text, i))

\* the pieces of text between the separators, which are given by their first
\* and last position in ascending order: String.prototype.split
RECURSIVE PiecesFrom(_, _, _)
PiecesFrom(text, from, seps) ==
    IF seps = {} THEN <<SubSeq(text, from, Len(text))>>
    ELSE LET first == CHOOSE x \in seps : \A y \in seps : x[1] <= y[1]
         IN  <<SubSeq(text, from, first[1] - 1)>>
             \o PiecesFrom(text, first[2] + 1, seps \ {first})

\* text.split(/\n\n+/): the separators are the maximal runs of two or more
\* newlines
BlankLineSeparators(text) ==
    LET n == Len(text)
        NL(i) == i >= 1 /\ i <= n /\ CharAt(text, i) = "\n"
        starts == {i \in 1..n : NL(i) /\ NL(i + 1) /\ ~NL(i - 1)}
        endOf(i) == CHOOSE j \in (i + 1)..n :
                        (\A k \in i..j : NL(k)) /\ ~NL(j + 1)
    IN  {<<i, endOf(i)>> : i \in starts}

\* the lookahead (?=\d+\.|\([0-9a-z]+\)|[A-Z]\.|[a-z]\)) at position i
NumberingAt(text, i) ==
    LET n == Len(text)
        ch(k) == IF k >= 1 /\ k <= n THEN CharAt(text, k) ELSE ""
    IN  \/ /\ ch(i) \in Digits
           /\ \E j \in i..n : /\ \A k \in i..j : ch(k) \in Digits
                              /\ ch(j + 1) = "."
        \/ /\ ch(i) = "("
           /\ \E j \in (i + 1)..n :
                /\ \A k \in (i + 1)..j : ch(k) \in Digits \cup LowerCase
                /\ ch(j + 1) = ")"
        \/ ch(i) \in UpperCase /\ ch(i + 1) = "."
        \/ ch(i) \in LowerCase /\ ch(i + 1) = ")"

\* part.split(/\n(?=...)/): the separators are the newlines before a numbering
NumberingSeparators(text) ==
    {<<i, i>> : i \in {k \in 1..Len(text) :
                          CharAt(text, k) = "\n" /\ NumberingAt(text, k + 1)}}

Filter(texts, Keep(_)) ==
    LET kept == {i \in 1..Len(texts) : Keep(texts[i])}
        RECURSIVE Build(_)
        Build(S) == IF S = {} THEN <<>>
                    ELSE <<texts[Least(S)]>> \o Build(S \ {Least(S)})
    IN  Build(kept)

RECURSIVE Flatten(_)
Flatten(lists) == IF Len(lists) = 0 THEN <<>> ELSE lists[1] \o Flatten(Tail(lists))

\* extractParagraphs: the parts between blank lines, each split before its
\* numbered lines, the blank ones removed
extractParagraphs(text) ==
    LET parts == PiecesFrom(text, 1, BlankLineSeparators(text))
        numberedParts(part) == PiecesFrom(part, 1, NumberingSeparators(part))
    IN  Filter(Flatten([i \in 1..Len(parts) |-> numberedParts(parts[i])]), NonBlank)

\* countWords: text.trim().split(/\s+/).length; the split of "" is [""]
countWords(text) ==
    LET t == Trim(text)
        wordStarts == {i \in 1..Len(t) :
                          ~IsSpace(CharAt(t, i)) /\ (i = 1 \/ IsSpace(CharAt(t, i - 1)))}
    IN  IF t = "" THEN 1 ELSE Cardinality(wordStarts)

-----------------------------------------------------------------------------
(* ChunkingService: chunks *)

\* `${judgmentId}-${pageNumber}-${paragraphNumber}-${index}`
ChunkIdOfParagraph(judgmentId, pageNumber, paragraphNumber, index) ==
    ToString(judgmentId) \o "-" \o ToString(pageNumber) \o "-"
        \o ToString(paragraphNumber)
ChunkId(judgmentId, pageNumber, paragraphNumber, index) ==
    ToString(judgmentId) \o "-" \o ToString(pageNumber) \o "-"
        \o ToString(paragraphNumber) \o "-" \o ToString(index)

\* a JudgmentChunk
JudgmentChunk(chunkId, text, pageNumber, paragraphNumber, startChar, endChar) ==
    [chunkId |-> chunkId,
     text |-> text,
     anchor |-> [pageNumber |-> pageNumber, paragraphNumber |-> paragraphNumber,
                 startChar |-> startChar, endChar |-> endChar],
     metadata |-> [pageNumber |-> pageNumber, paragraphNumber |-> paragraphNumber,
                   wordCount |-> countWords(text), charCount |-> Len(text)]]

\* searchText.match(/[.!?]\s/): the index of the first match, or -1
SentenceEnd(searchText) ==
    LET hits == {i \in 1..(Len(searchText) - 1) :
                    /\ CharAt(searchText, i) \in {".", "!", "?"}
                    /\ IsSpace(CharAt(searchText, i + 1))}
    IN  IF hits = {} THEN -1 ELSE Least(hits) - 1

\* splitLongParagraph: the end of the window that starts at position
WindowEndUncapped(paragraph, position) == Len(paragraph)
WindowEnd(paragraph, position) ==
    LET endPosition == Min(position + MAX_CHUNK_SIZE, Len(paragraph))
        searchStart == Max(position + MIN_CHUNK_SIZE, endPosition - 200)
        index == SentenceEnd(Substring(paragraph, searchStart, endPosition))
    IN  IF endPosition < Len(paragraph) /\ index # -1
        THEN searchStart + index + 2
        ELSE endPosition

\* splitLongParagraph: the text of the chunk for the window
WindowText(paragraph, position, endPosition) ==
    Trim(Substring(paragraph, position, endPosition))

\* splitLongParagraph: the position of the next window
NextPositionWithoutOverlap(position, endPosition) == endPosition
NextPositionCreeping(position, endPosition) == position + OVERLAP_SIZE
NextPosition(position, endPosition) ==
    Max(endPosition - OVERLAP_SIZE, position + MIN_CHUNK_SIZE)

\* splitLongParagraph: the while loop from position on
RECURSIVE WindowsFrom(_, _, _, _, _, _)
WindowsFrom(paragraph, pageNumber, paragraphNumber, judgmentId, counter, position) ==
    IF position >= Len(paragraph) THEN <<>>
    ELSE LET endPosition == WindowEnd(paragraph, position)
             chunk == JudgmentChunk(
                          ChunkId(judgmentId, pageNumber, paragraphNumber, counter),
                          WindowText(paragraph, position, endPosition),
                          pageNumber, paragraphNumber, position, endPosition)
         IN  IF endPosition >= Len(paragraph) THEN <<chunk>>
             ELSE <<chunk>> \o
                  WindowsFrom(paragraph, pageNumber, paragraphNumber, judgmentId,
                              counter + 1, NextPosition(position, endPosition))

splitIntoOneChunk(paragraph, pageNumber, paragraphNumber, judgmentId, startChunkCounter) ==
    <<JudgmentChunk(ChunkId(judgmentId, pageNumber, paragraphNumber, startChunkCounter),
                    paragraph, pageNumber, paragraphNumber, 0, Len(paragraph))>>
splitLongParagraph(paragraph, pageNumber, paragraphNumber, judgmentId, startChunkCounter) ==
    WindowsFrom(paragraph, pageNumber, paragraphNumber, judgmentId, startChunkCounter, 0)

\* the locals of chunkPages: chunks, globalParagraphCounter, chunkCounter
ChunkLocals(list, globalParagraphCounter, chunkCounter) ==
    [list |-> list, globalParagraphCounter |-> globalParagraphCounter,
     chunkCounter |-> chunkCounter]

\* the paragraph number given to the next non-empty paragraph
NextParagraphPerPage(locals, paraIndex) == paraIndex
NextParagraph(locals, paraIndex) == locals.globalParagraphCounter + 1

\* chunkPages: the body of the paragraph loop
WithParagraph(locals, paragraph, paraIndex, pageNumber, judgmentId) ==
    IF ~NonBlank(paragraph) THEN locals
    ELSE LET number == NextParagraph(locals, paraIndex)
         IN  IF Len(paragraph) <= MAX_CHUNK_SIZE
             THEN ChunkLocals(
                      Append(locals.list,
                             JudgmentChunk(ChunkId(judgmentId, pageNumber, number,
                                                   locals.chunkCounter),
                                           paragraph, pageNumber, number, 0,
                                           Len(paragraph))),
                      number, locals.chunkCounter + 1)
             ELSE LET paraChunks == splitLongParagraph(paragraph, pageNumber, number,
                                                       judgmentId, locals.chunkCounter)
                  IN  ChunkLocals(locals.list \o paraChunks, number,
                                  locals.chunkCounter + Len(paraChunks))

RECURSIVE WithParagraphs(_, _, _, _, _)
WithParagraphs(locals, paragraphs, paraIndex, pageNumber, judgmentId) ==
    IF paraIndex > Len(paragraphs) THEN locals
    ELSE WithParagraphs(
             WithParagraph(locals, paragraphs[paraIndex], paraIndex, pageNumber,
                           judgmentId),
             paragraphs, paraIndex + 1, pageNumber, judgmentId)

\* chunkPages: the loop over the pages
RECURSIVE WithPages(_, _, _)
WithPages(locals, pages, judgmentId) ==
    IF Len(pages) = 0 THEN locals
    ELSE WithPages(
             WithParagraphs(locals, extractParagraphs(pages[1].text), 1,
                            pages[1].pageNumber, judgmentId),
             Tail(pages), judgmentId)

RECURSIVE TotalChunkSize(_)
TotalChunkSize(list) ==
    IF Len(list) = 0 THEN 0 ELSE Len(list[1].text) + TotalChunkSize(Tail(list))

\* Math.round(a / b) for a >= 0 and b > 0
RoundDown(a, b) == a \div b
RoundDiv(a, b) == (2 * a + b) \div (2 * b)

\* the counters a call of chunkPages starts from: they are locals of the call
CountersCarriedOver(service) == service
FreshCounters(service) == [globalParagraphCounter |-> 0, chunkCounter |-> 0]

\* chunkPages: the ChunkingResult, for the service as the call finds it
chunkPages(pages, judgmentId, service) ==
    LET entry == FreshCounters(service)
        locals == WithPages(ChunkLocals(<<>>, entry.globalParagraphCounter,
                                        entry.chunkCounter),
                            pages, judgmentId)
        size == Len(locals.list)
    IN  [chunks |-> locals.list,
         totalChunks |-> size,
         statistics |->
            [totalPages |-> Len(pages),
             totalParagraphs |-> locals.globalParagraphCounter,
             averageChunkSize |-> IF size > 0
                                  THEN RoundDiv(TotalChunkSize(locals.list), size)
                                  ELSE 0]]

\* the texts of the pages handed to chunkPages: a page of white space only,
\* short paragraphs with blank lines, a paragraph of white space between them
\* and numbered lines, a paragraph of MAX_CHUNK_SIZE characters before one of one
\* character more than MAX_CHUNK_SIZE, a paragraph of sentences, words without
\* a sentence end, and a heading before a paragraph of three windows that
\* ends with the newline of the page's last line
PageTexts ==
    {" \n\n\t",
     "Intro.\n\n\n \t\n\nSecond para.\n1. one\n(a) two",
     Rep("x", MAX_CHUNK_SIZE) \o "\n\n" \o Rep("x", MAX_CHUNK_SIZE + 1),
     Rep("abcd efgh. ", 100),
     Rep("word ", 205),
     "Head line\n\n" \o Rep("y", 1901) \o "\n"}

\* the pages of an ExtractionResult: pageNumber is the position of the page
PagesOf(texts) == [i \in 1..Len(texts) |-> PageContent(i, texts[i], "digital")]

PageLists ==
    {PagesOf(texts) : texts \in UNION {[1..n -> PageTexts] : n \in 0..MaxChunkPages}}

JudgmentIds == {7}

\* a callLLMWithRetry that has not been called: at is the position of the
\* call, now the time in milliseconds, due the time the backoff timer was set
\* for, inFlight the create() calls not yet settled, log the attempts begun
\* and ended with their times
NoRetry == [at |-> "idle", attempt |-> 0, now |-> 0, due |-> 0, inFlight |-> 0,
            log |-> <<>>]

\* Math.pow(2, attempt) * 1000
BackoffFlat(a) == 1000
Backoff(a) == (2 ^ a) * 1000
\* a ChunkingService whose chunkPages has not been called; service holds the
\* counters the last call ended with
NoChunkJob == [pages |-> <<>>, judgmentId |-> 0, results |-> <<>>,
               service |-> [globalParagraphCounter |-> 0, chunkCounter |-> 0]]

-----------------------------------------------------------------------------
(* POST /api/analysis/judgment: the values of the handler *)

\* the two registrations of the route: server/routes.ts and test-llm.js
Handlers == {"routes.ts", "test-llm.js"}

\* what a validated request carries: an uploaded file (s3Path is set), a
\* sourceUrl that is an http(s) URL, or a sourceUrl that is a citation; the
\* validation leaves no request without a file and without a sourceUrl
Sources == {"upload", "url", "citation"}

\* analysis.id of the record storage.createAnalysis returned
AnalysisId == "analysis-1"

SourceUrl == "2024 INSC 1"

NoReply == [sent |-> FALSE, code |-> "", analysis_id |-> "", status |-> ""]

\* res.status(202).json({ analysis_id: analysis.id, status: 'processing', ... })
Accepted(id) == [sent |-> TRUE, code |-> "202", analysis_id |-> id,
                 status |-> "processing"]

\* the background task is the statement after res.status(202).json(...)
BackgroundMayStartUnanswered(j) == j.at \in {"created", "responded"}
BackgroundMayStart(j) == j.at = "responded"

\* what readFile, pdf-parse, pdf2pic or the OCR worker throw
ExtractionErrors == {Err("ENOENT: no such file or directory"),
                     Err("Failed to convert page 1 to image"),
                     NonError}

\* throw new Error(`Citation resolution not yet implemented. ...`)
CitationFailure(url) ==
    Err("Citation resolution not yet implemented. Please provide a direct PDF URL instead of citation: \""
        \o url \o "\"")

\* pdfExtractionService.extractFromUrl(sourceUrl): PDFExtractionService has no
\* such method, the call throws a TypeError
NoExtractFromUrl == Err("pdfExtractionService.extractFromUrl is not a function")

\* what a failed storage.updateJudgment throws
JudgmentStoreErrors == {Err("Judgment not found")}

\* the text the catch of the background task puts before the message
CatchPrefix(handler) ==
    IF handler = "routes.ts" THEN "PDF extraction failed: " ELSE "Analysis failed: "

\* the catch of the background task: { status: 'failed', error: `...` }
FailedUpdateWithoutMessage(handler, error) == [status |-> "failed", error |-> NoText]
FailedUpdate(handler, error) ==
    [status |-> "failed",
     error |-> Text(CatchPrefix(handler) \o MessageOf(error, "Unknown error"))]

\* the handler has created the judgment and the analysis record
NewJob(handler, source) ==
    [handler |-> handler, source |-> source, at |-> "created", reply |-> NoReply,
     caught |-> NoError, failedIn |-> "none"]

NoRequest == [NewJob("routes.ts", "upload") EXCEPT !.at = "none"]

-----------------------------------------------------------------------------
(* Initial state: the ingestion handler has created the record with status  *)
(* processing and is about to answer the request                             *)

IdleJob == [input |-> JNull, output |-> <<>>, done |-> FALSE]

InitRun ==
    /\ pc = "idle"
    /\ runState = "NotStarted"
    /\ stepIdx = 1
    /\ phase = "none"
    /\ attempt = 0
    /\ calls = 0
    /\ promptArgs = NoPrompt
    /\ response = NoMessage
    /\ stepResults = <<>>
    /\ stepContext = <<>>
    /\ totalTokens = 0
    /\ outcome = NoOutcome
    /\ caught = NoError
    /\ record = [status |-> "processing", result |-> NullResult, error |-> NoText]
    /\ started = {}
    /\ warned = {}
    /\ reported = 0
    /\ onlyNonJson = TRUE
    /\ varied = 0

\* no call of the extraction or chunking service is modelled
IdleSide ==
    /\ select = NoSelection
    /\ ocr = <<>>
    /\ clock = 0
    /\ fs = {}
    /\ chunkJob = NoChunkJob
    /\ retry = NoRetry
    /\ pick = NoPick

Init ==
    /\ offline \in BOOLEAN
    /\ chunks = <<>>
    /\ InitRun
    /\ anchorJob = IdleJob
    /\ job \in {NewJob(h, s) : h \in Handlers, s \in Sources}
    /\ IdleSide

step == analysisStepOrder[stepIdx]

-----------------------------------------------------------------------------
(* runFullAnalysis and analyzeJudgment *)

\* the background task calls runFullAnalysis with extractionResult and chunks:
\* analyzeJudgment starts with empty stepResults and stepContext
Start ==
    /\ job.at = "analysis"
    /\ pc = "idle"
    /\ pc' = "analyze"
    /\ runState' = "Running"
    /\ stepIdx' = 1
    /\ phase' = "begin"
    /\ stepResults' = <<>>
    /\ stepContext' = <<>>
    /\ totalTokens' = 0
    /\ UNCHANGED <<offline, chunks, attempt, calls, promptArgs, response, outcome,
                   caught, record, started, warned, reported, onlyNonJson, varied,
                   anchorJob, job, sideVars>>

\* loop body up to the prompt: selectRelevantChunks, generateAnalysisPrompt,
\* then the offline branch or callLLMWithRetry with attempt = 0; response is a
\* const of the loop body, not yet assigned in a new iteration
BeginStep ==
    /\ runState = "Running" /\ phase = "begin"
    /\ promptArgs' = generateAnalysisPrompt(step, ChunksText(chunks, step), stepContext)
    /\ started' = started \cup {step}
    /\ phase' = IF offline THEN "offline" ELSE "call"
    /\ attempt' = 0
    /\ calls' = 0
    /\ response' = NoMessage
    /\ UNCHANGED <<offline, chunks, pc, runState, stepIdx, stepResults,
                   stepContext, totalTokens, outcome, caught, record, warned,
                   reported, onlyNonJson, varied, anchorJob, job, sideVars>>

\* the position after a stored step: the next iteration, or past the loop
AfterStepSkipping(i) == IF i + 1 < NumSteps THEN i + 2 ELSE NumSteps + 1
AfterStep(i) == i + 1

\* store the step (stepResults, stepContext, totalTokens), then the next
\* iteration or the return of the CompleteAnalysisResult
StoreAndAdvance(parsed, model, tokens) ==
    LET results == WithResult(stepResults, step, StepResult(step, parsed, model, tokens))
        total == totalTokens + tokens
    IN  /\ stepResults' = results
        /\ stepContext' = WithContext(stepContext, step, parsed)
        /\ totalTokens' = total
        /\ IF AfterStep(stepIdx) <= NumSteps
           THEN /\ stepIdx' = AfterStep(stepIdx)
                /\ phase' = "begin"
                /\ UNCHANGED <<pc, runState, outcome>>
           ELSE /\ stepIdx' = stepIdx
                /\ phase' = "none"
                /\ runState' = "Completed"
                /\ outcome' = [kind |-> "returned",
                               value |-> CompleteAnalysisResult(results, total),
                               error |-> NoError]
                /\ pc' = "writeCompleted"

\* the catch of the loop body rethrows, runFullAnalysis catches
FailStep(error) ==
    /\ runState' = "Failed"
    /\ phase' = "none"
    /\ outcome' = [kind |-> "thrown", value |-> NullResult,
                   error |-> StepFailure(step, error)]
    /\ caught' = StepFailure(step, error)
    /\ pc' = "writeFailed"
    /\ UNCHANGED <<stepIdx, stepResults, stepContext, totalTokens>>

\* offline branch: offlineAnalysisForStep, extractAnchors, store, continue
OfflineStep ==
    /\ runState = "Running" /\ phase = "offline"
    /\ StoreAndAdvance(offlineAnalysisForStep(step, chunks, stepContext), "offline", 0)
    /\ UNCHANGED <<offline, chunks, attempt, calls, promptArgs, response, caught,
                   record, started, warned, reported, onlyNonJson, varied, anchorJob, job, sideVars>>

\* callLLMWithRetry: the attempts left after a failed one
RetriesLeftOffByOne(a) == a < RETRIES - 1
RetriesLeft(a) == a < RETRIES

\* callLLMWithRetry: create() resolves and choices[0].message is returned
BackendReturns ==
    /\ runState = "Running" /\ phase = "call"
    /\ \E r \in BackendResponses :
         LET good == parseAndValidateResponse(r.content, step).ok
         IN  /\ r = DefaultResponse \/ ~good \/ varied < MaxVaried
             /\ varied' = IF r = DefaultResponse \/ ~good THEN varied ELSE varied + 1
             /\ response' = ChoiceMessage(r)
             /\ reported' = reported + (IF r.usage.present THEN r.usage.total_tokens ELSE 0)
             /\ onlyNonJson' = (onlyNonJson /\ IsNonJsonText(r.content))
    /\ calls' = calls + 1
    /\ phase' = "parse"
    /\ UNCHANGED <<offline, chunks, pc, runState, stepIdx, attempt, promptArgs,
                   stepResults, stepContext, totalTokens, outcome, caught, record,
                   started, warned, anchorJob, job, sideVars>>

\* callLLMWithRetry: the attempt throws; the last attempt rethrows, an earlier
\* one warns and waits
BackendFails ==
    /\ runState = "Running" /\ phase = "call"
    /\ calls' = calls + 1
    /\ onlyNonJson' = FALSE
    /\ \E e \in BackendErrors :
         IF RetriesLeft(attempt)
         THEN /\ phase' = "backoff"
              /\ UNCHANGED <<pc, runState, stepIdx, stepResults, stepContext,
                             totalTokens, outcome, caught>>
         ELSE FailStep(e)
    /\ UNCHANGED <<offline, chunks, attempt, promptArgs, response, record, started,
                   warned, reported, varied, anchorJob, job, sideVars>>

\* the backoff timer fires: attempt++ and the next create()
BackoffElapsed ==
    /\ runState = "Running" /\ phase = "backoff"
    /\ attempt' = attempt + 1
    /\ phase' = "call"
    /\ UNCHANGED <<offline, chunks, pc, runState, stepIdx, calls, promptArgs,
                   response, stepResults, stepContext, totalTokens, outcome, caught,
                   record, started, warned, reported, onlyNonJson, varied, anchorJob, job, sideVars>>

\* parseAndValidateResponse, extractAnchors, store; a throw fails the step
ParseStep ==
    /\ runState = "Running" /\ phase = "parse"
    /\ LET p == parseAndValidateResponse(response.content, step)
       IN  IF p.ok
           THEN /\ StoreAndAdvance(p.value, MODEL, tokensOf(response))
                /\ warned' = warned \cup p.warnings
                /\ UNCHANGED caught
           ELSE /\ FailStep(p.error)
                /\ UNCHANGED warned
    /\ UNCHANGED <<offline, chunks, attempt, calls, promptArgs, response, record,
                   started, reported, onlyNonJson, varied, anchorJob, job, sideVars>>

\* runFullAnalysis after analyzeJudgment returned: updateAnalysis(completed)
WriteCompleted ==
    /\ pc = "writeCompleted"
    /\ \/ /\ record' = updateAnalysis(record, [status |-> "completed",
                                               result |-> outcome.value,
                                               error |-> NoText])
          /\ pc' = "done"
          /\ UNCHANGED caught
       \/ /\ \E e \in StorageErrors : caught' = e
          /\ pc' = "writeFailed"
          /\ UNCHANGED record
    /\ UNCHANGED <<offline, chunks, runState, stepIdx, phase, attempt, calls,
                   promptArgs, response, stepResults, stepContext, totalTokens,
                   outcome, started, warned, reported, onlyNonJson, varied, anchorJob, job, sideVars>>

\* the catch of runFullAnalysis: updateAnalysis(failed, error message)
WriteFailed ==
    /\ pc = "writeFailed"
    /\ \/ /\ record' = updateAnalysis(record,
                          [status |-> "failed",
                           error |-> Text(MessageOf(caught, "Unknown error"))])
          /\ pc' = "done"
       \/ /\ pc' = "rejected"
          /\ UNCHANGED record
    /\ UNCHANGED <<offline, chunks, runState, stepIdx, phase, attempt, calls,
                   promptArgs, response, stepResults, stepContext, totalTokens,
                   outcome, caught, started, warned, reported, onlyNonJson, varied,
                   anchorJob, job, sideVars>>

-----------------------------------------------------------------------------
(* POST /api/analysis/judgment: the response and the background task *)

\* res.status(202).json(...)
Respond ==
    /\ job.at = "created"
    /\ job' = [job EXCEPT !.reply = Accepted(AnalysisId), !.at = "responded"]
    /\ UNCHANGED <<runVarsOfRun, anchorJob, sideVars>>

\* the async function is called and runs to its first await: routes.ts starts
\* a task only for an uploaded file; test-llm.js calls extractFromPath for a
\* file, throws for a citation and calls extractFromUrl for a URL
LaunchBackground ==
    /\ BackgroundMayStart(job)
    /\ job' =
         IF job.source = "upload"
         THEN [job EXCEPT !.at = "extract"]
         ELSE IF job.handler = "routes.ts"
         THEN [job EXCEPT !.at = "ended"]
         ELSE IF job.source = "citation"
         THEN [job EXCEPT !.at = "catch", !.caught = CitationFailure(SourceUrl),
                          !.failedIn = "source"]
         ELSE [job EXCEPT !.at = "catch", !.caught = NoExtractFromUrl,
                          !.failedIn = "extraction"]
    /\ UNCHANGED <<runVarsOfRun, anchorJob, sideVars>>

\* extractFromPath resolves with the ExtractionResult
ExtractionSucceeds ==
    /\ job.at = "extract"
    /\ job' = [job EXCEPT !.at = "updateJudgment"]
    /\ UNCHANGED <<runVarsOfRun, anchorJob, sideVars>>

\* extractFromPath rejects: its catch has wrapped the error
ExtractionFails ==
    /\ job.at = "extract"
    /\ \E e \in ExtractionErrors :
         job' = [job EXCEPT !.at = "catch", !.caught = ExtractFailure(e),
                            !.failedIn = "extraction"]
    /\ UNCHANGED <<runVarsOfRun, anchorJob, sideVars>>

\* storage.updateJudgment(judgment.id, { caseName, pages }); routes.ts ends the
\* task here, test-llm.js goes on to chunkPages
UpdateJudgment ==
    /\ job.at = "updateJudgment"
    /\ \/ job' = [job EXCEPT !.at = IF job.handler = "routes.ts" THEN "ended"
                                    ELSE "chunk"]
       \/ \E e \in JudgmentStoreErrors :
            job' = [job EXCEPT !.at = "catch", !.caught = e, !.failedIn = "store"]
    /\ UNCHANGED <<runVarsOfRun, anchorJob, sideVars>>

\* chunkingResult = await chunkingService.chunkPages(extractionResult.pages, ...)
ChunkPages ==
    /\ job.at = "chunk"
    /\ chunks' \in {ChunkList(0), ChunkList(MaxChunks)}
    /\ job' = [job EXCEPT !.at = "analysis"]
    /\ UNCHANGED <<offline, pc, runState, stepIdx, phase, attempt, calls,
                   promptArgs, response, stepResults, stepContext, totalTokens,
                   outcome, caught, record, started, warned, reported,
                   onlyNonJson, varied, anchorJob, sideVars>>

\* await analysisService.runFullAnalysis(...) resolves: the task is over
TaskEnds ==
    /\ job.at = "analysis" /\ pc = "done"
    /\ job' = [job EXCEPT !.at = "ended"]
    /\ UNCHANGED <<runVarsOfRun, anchorJob, sideVars>>

\* runFullAnalysis rejects with what its updateAnalysis threw: the catch of
\* the task takes it
TaskCatches ==
    /\ job.at = "analysis" /\ pc = "rejected"
    /\ \E e \in StorageErrors :
         job' = [job EXCEPT !.at = "catch", !.caught = e, !.failedIn = "store"]
    /\ UNCHANGED <<runVarsOfRun, anchorJob, sideVars>>

\* the catch of the task: storage.updateAnalysis(analysis.id, { status:
\* 'failed', error }); when that throws the rejection is handled by nobody
HandlerWriteFailed ==
    /\ job.at = "catch"
    /\ \/ /\ record' = updateAnalysis(record, FailedUpdate(job.handler, job.caught))
          /\ job' = [job EXCEPT !.at = "ended"]
       \/ /\ job' = [job EXCEPT !.at = "unhandled"]
          /\ UNCHANGED record
    /\ UNCHANGED <<offline, chunks, pc, runState, stepIdx, phase, attempt, calls,
                   promptArgs, response, stepResults, stepContext, totalTokens,
                   outcome, caught, started, warned, reported, onlyNonJson, varied,
                   anchorJob, sideVars>>

Next ==
    \/ Respond
    \/ LaunchBackground
    \/ ExtractionSucceeds
    \/ ExtractionFails
    \/ UpdateJudgment
    \/ ChunkPages
    \/ TaskEnds
    \/ TaskCatches
    \/ HandlerWriteFailed
    \/ Start
    \/ BeginStep
    \/ OfflineStep
    \/ BackendReturns
    \/ BackendFails
    \/ BackoffElapsed
    \/ ParseStep
    \/ WriteCompleted
    \/ WriteFailed

Spec == Init /\ [][Next]_vars

-----------------------------------------------------------------------------
(* extractAnchors on standalone values *)

AnchorPrims == {JNull, JStr("p1"), JNum("0")}

OptKid(k, S) == {<<>>} \cup {<<Kid(k, v)>> : v \in S}

\* objects with an optional "anchor" and an optional "a" property over S
ObjectsOver(S) == {JObj(x \o y) : x \in OptKid("anchor", S), y \in OptKid("a", S)}

\* arrays of 0..MaxArrayLen items of S
ArraysOver(S) == {JArr(items) : items \in UNION {[1..n -> S] : n \in 0..MaxArrayLen}}

AnchorLevel1 == AnchorPrims \cup ObjectsOver(AnchorPrims) \cup ArraysOver(AnchorPrims)

AnchorLevel2 == ObjectsOver(AnchorLevel1) \cup ArraysOver(AnchorLevel1)

AnchorInputs ==
    AnchorLevel2
    \cup {JObj(<<Kid("a", v)>>) : v \in AnchorLevel2}
    \cup {JArr(<<v>>) : v \in AnchorLevel2}

InitAnchors ==
    /\ offline = FALSE
    /\ chunks = <<>>
    /\ InitRun
    /\ anchorJob \in {[input |-> v, output |-> <<>>, done |-> FALSE] : v \in AnchorInputs}
    /\ job = NoRequest
    /\ IdleSide

\* const anchors = this.extractAnchors(parsedResult)
ApplyExtract ==
    /\ ~anchorJob.done
    /\ anchorJob' = [anchorJob EXCEPT !.output = extractAnchors(anchorJob.input),
                                      !.done = TRUE]
    /\ UNCHANGED runVars

NextAnchors == ApplyExtract

SpecAnchors == InitAnchors /\ [][NextAnchors]_vars

-----------------------------------------------------------------------------
(* extractFromBuffer on parsed documents *)

InitSelect ==
    /\ offline = FALSE
    /\ chunks = <<>>
    /\ InitRun
    /\ anchorJob = IdleJob
    /\ job = NoRequest
    /\ select \in {[NoSelection EXCEPT !.data = d] : d \in ParsedDocuments}
    /\ ocr = <<>>
    /\ clock = 0
    /\ fs = {}
    /\ chunkJob = NoChunkJob
    /\ retry = NoRetry
    /\ pick = NoPick

\* extractFromBuffer up to the choice between the digital result and OCR
ApplySelect ==
    /\ ~select.applied
    /\ LET digitalResult == extractDigitalText(select.data)
       IN  select' = [select EXCEPT !.applied = TRUE,
                                    !.pages = digitalResult.pages,
                                    !.totalPages = digitalResult.totalPages,
                                    !.method = SelectedMethod(digitalResult)]
    /\ UNCHANGED <<runVarsOfRun, anchorJob, job, ocr, clock, fs, chunkJob, retry, pick>>

NextSelect == ApplySelect

\* the lines of the documents whose lines are dealt out to pages
DealtLines == {"", "a", "bb"}

MaxDealLines == 5
MaxDealPages == 4

\* parsed documents of 1..MaxDealLines short lines and 1..MaxDealPages pages
DealtDocuments ==
    {PdfData(Join(ls, "\n"), n) :
        ls \in UNION {[1..k -> DealtLines] : k \in 1..MaxDealLines},
        n \in 1..MaxDealPages}

InitDeal ==
    /\ offline = FALSE
    /\ chunks = <<>>
    /\ InitRun
    /\ anchorJob = IdleJob
    /\ job = NoRequest
    /\ select \in {[NoSelection EXCEPT !.data = d] : d \in DealtDocuments}
    /\ ocr = <<>>
    /\ clock = 0
    /\ fs = {}
    /\ chunkJob = NoChunkJob
    /\ retry = NoRetry
    /\ pick = NoPick

SpecDeal == InitDeal /\ [][NextSelect]_vars
\* every call the handler, the task or the run awaits returns or throws, and
\* every continuation that is ready runs
SpecLive == Spec /\ WF_vars(Next)
SpecSelect == InitSelect /\ [][NextSelect]_vars

-----------------------------------------------------------------------------
(* extractWithOCR: concurrent calls *)

\* two extraction calls run their OCR path at the same time
CallIds == {"A", "B"}

InitOCR ==
    /\ offline = FALSE
    /\ chunks = <<>>
    /\ InitRun
    /\ anchorJob = IdleJob
    /\ job = NoRequest
    /\ select = NoSelection
    /\ ocr \in {[c \in CallIds |-> IdleCall(n)] : n \in 1..MaxOcrPages}
    /\ clock = 0
    /\ fs = {}
    /\ chunkJob = NoChunkJob
    /\ retry = NoRetry
    /\ pick = NoPick

OcrUnchanged ==
    UNCHANGED <<runVarsOfRun, anchorJob, job, select, chunkJob, retry, pick>>

RECURSIVE FaultsOf(_)
FaultsOf(ids) ==
    IF ids = {} THEN 0
    ELSE LET c == CHOOSE x \in ids : TRUE
         IN  ocr[c].faults + FaultsOf(ids \ {c})

\* one more operation may fail
MayFail == FaultsOf(CallIds) < MaxFaults

\* the call with one more failed operation
Faulted(call) == [call EXCEPT !.faults = call.faults + 1]

\* a millisecond passes
Tick ==
    /\ clock < MaxClock
    /\ clock' = clock + 1
    /\ UNCHANGED <<ocr, fs>>
    /\ OcrUnchanged

\* extractWithOCR is entered: tempDir is named after Date.now(), mkdir is called
EnterOCR(c) ==
    /\ ocr[c].at = "idle"
    /\ ocr' = [ocr EXCEPT ![c].at = "mkdir", ![c].tempDir = TempDirAt(clock)]
    /\ UNCHANGED <<clock, fs>>
    /\ OcrUnchanged

\* await mkdir(tempDir, { recursive: true }): an existing directory is no
\* error; a rejection leaves extractWithOCR before its try
Mkdir(c) ==
    /\ ocr[c].at = "mkdir"
    /\ \/ /\ fs' = fs \cup {ocr[c].tempDir}
          /\ ocr' = [ocr EXCEPT ![c].at = "parse", ![c].created = TRUE]
       \/ /\ MayFail
          /\ \E e \in MkdirErrors :
               ocr' = [ocr EXCEPT ![c] = [Faulted(ocr[c]) EXCEPT
                                            !.at = "thrown",
                                            !.error = ExtractFailure(e)]]
          /\ UNCHANGED fs
    /\ UNCHANGED clock
    /\ OcrUnchanged

\* pdfParse(buffer) for the page count, fromBuffer, then createWorker is called
ParseForPageCount(c) ==
    /\ ocr[c].at = "parse"
    /\ \/ ocr' = [ocr EXCEPT ![c].at = "createWorker",
                             ![c].totalPages = ocr[c].numpages]
       \/ /\ MayFail
          /\ \E e \in PdfParseErrors :
               ocr' = [ocr EXCEPT ![c] = [Faulted(ocr[c]) EXCEPT
                                            !.at = "cleanup",
                                            !.pending = Throwing(e)]]
    /\ UNCHANGED <<clock, fs>>
    /\ OcrUnchanged

\* await createWorker('eng'), then the first iteration up to convert(pageNum)
CreateWorker(c) ==
    /\ ocr[c].at = "createWorker"
    /\ LET call == ocr[c]
       IN  \/ ocr' = [ocr EXCEPT ![c] =
                        IF 1 <= call.totalPages
                        THEN [call EXCEPT !.worker = "live", !.at = "convert",
                                          !.pageNum = 1, !.touched = {1}]
                        ELSE [call EXCEPT !.worker = "live", !.at = "terminate",
                                          !.pending = Returning]]
           \/ /\ MayFail
              /\ \E e \in WorkerErrors :
                   ocr' = [ocr EXCEPT ![c] = OnWorkerFailure(Faulted(call), e)]
    /\ UNCHANGED <<clock, fs>>
    /\ OcrUnchanged

\* await convert(pageNum, { responseType: 'buffer' }): an image, no image or a
\* rejection
Convert(c) ==
    /\ ocr[c].at = "convert"
    /\ LET call == ocr[c]
       IN  \/ ocr' = [ocr EXCEPT ![c].at = "recognize"]
           \/ /\ MayFail
              /\ ocr' = [ocr EXCEPT ![c] =
                           OnPageFailure(Faulted(call), NoImage(call.pageNum))]
           \/ /\ MayFail
              /\ \E e \in ConvertErrors :
                   ocr' = [ocr EXCEPT ![c] = OnPageFailure(Faulted(call), e)]
    /\ UNCHANGED <<clock, fs>>
    /\ OcrUnchanged

\* await worker.recognize(result.buffer), pages.push, pageNum++ and the next
\* iteration, or the end of the loop
Recognize(c) ==
    /\ ocr[c].at = "recognize"
    /\ LET call == ocr[c]
           pushed == Append(call.pages,
                            PageContent(call.pageNum, OcrText(call.pageNum), "ocr"))
       IN  \/ ocr' = [ocr EXCEPT ![c] =
                        IF call.pageNum + 1 <= call.totalPages
                        THEN [call EXCEPT !.pages = pushed,
                                          !.pageNum = call.pageNum + 1,
                                          !.touched = call.touched \cup {call.pageNum + 1},
                                          !.at = "convert"]
                        ELSE [call EXCEPT !.pages = pushed,
                                          !.pageNum = call.pageNum + 1,
                                          !.at = "terminate", !.pending = Returning]]
           \/ /\ MayFail
              /\ \E e \in RecognizeErrors :
                   ocr' = [ocr EXCEPT ![c] = OnPageFailure(Faulted(call), e)]
    /\ UNCHANGED <<clock, fs>>
    /\ OcrUnchanged

\* inner finally: await worker.terminate(); its rejection replaces the
\* completion held back
TerminateWorker(c) ==
    /\ ocr[c].at = "terminate"
    /\ \/ ocr' = [ocr EXCEPT ![c].worker = "terminated", ![c].at = "cleanup"]
       \/ /\ MayFail
          /\ \E e \in TerminateErrors :
               ocr' = [ocr EXCEPT ![c] = [Faulted(ocr[c]) EXCEPT
                                            !.worker = "terminateFailed",
                                            !.at = "cleanup",
                                            !.pending = Throwing(e)]]
    /\ UNCHANGED <<clock, fs>>
    /\ OcrUnchanged

\* outer finally: rm(tempDir, { recursive: true, force: true }) with its
\* rejection caught and warned about; then the completion held back takes
\* place: extractFromBuffer returns the result, or extractFromPath wraps the
\* error
Cleanup(c) ==
    /\ ocr[c].at = "cleanup"
    /\ LET before == ocr[c]
       IN  \E rm \in {"removed", "failed"} :
           LET call == IF rm = "failed" THEN Faulted(before) ELSE before
           IN
             /\ rm = "failed" => MayFail
             /\ fs' = IF rm = "removed" THEN fs \ {call.tempDir} ELSE fs
             /\ ocr' = [ocr EXCEPT ![c] =
                          IF call.pending.kind = "return"
                          THEN [call EXCEPT !.rm = rm, !.at = "returned",
                                            !.pending = NoPending,
                                            !.result = OcrExtraction(call.pages,
                                                                     call.totalPages)]
                          ELSE [call EXCEPT !.rm = rm, !.at = "thrown",
                                            !.pending = NoPending,
                                            !.error = ExtractFailure(call.pending.error)]]
    /\ UNCHANGED clock
    /\ OcrUnchanged

NextOCR ==
    \/ Tick
    \/ \E c \in CallIds : EnterOCR(c)
    \/ \E c \in CallIds : Mkdir(c)
    \/ \E c \in CallIds : ParseForPageCount(c)
    \/ \E c \in CallIds : CreateWorker(c)
    \/ \E c \in CallIds : Convert(c)
    \/ \E c \in CallIds : Recognize(c)
    \/ \E c \in CallIds : TerminateWorker(c)
    \/ \E c \in CallIds : Cleanup(c)

SpecOCR == InitOCR /\ [][NextOCR]_vars

-----------------------------------------------------------------------------
(* extractFromPath: the digital parse, then the OCR fallback *)

\* one call of extractFromPath (call "A" when it comes to OCR) on a document
\* of one line
InitExtract ==
    /\ offline = FALSE
    /\ chunks = <<>>
    /\ InitRun
    /\ anchorJob = IdleJob
    /\ job = NoRequest
    /\ \E text \in LineTexts, n \in 1..MaxPages :
         /\ select = [NoSelection EXCEPT !.data = PdfData(text, n)]
         /\ ocr = [c \in CallIds |-> IdleCall(n)]
    /\ clock = 0
    /\ fs = {}
    /\ chunkJob = NoChunkJob
    /\ retry = NoRetry
    /\ pick = NoPick

\* extractDigitalText throws (pdfParse rejects): extractFromBuffer rejects and
\* extractFromPath wraps the error
DigitalParseFails ==
    /\ ~select.applied
    /\ \E e \in PdfParseErrors :
         select' = [select EXCEPT !.applied = TRUE, !.method = "thrown",
                                  !.error = ExtractFailure(e)]
    /\ UNCHANGED <<runVarsOfRun, anchorJob, job, ocr, clock, fs, chunkJob, retry, pick>>

\* extractFromBuffer: 'Minimal text found, using OCR...', extractWithOCR(buffer)
FallBackToOCR ==
    /\ select.applied
    /\ select.method = "ocr"
    /\ EnterOCR("A")

NextExtract ==
    \/ ApplySelect
    \/ DigitalParseFails
    \/ FallBackToOCR
    \/ Mkdir("A")
    \/ ParseForPageCount("A")
    \/ CreateWorker("A")
    \/ Convert("A")
    \/ Recognize("A")
    \/ TerminateWorker("A")
    \/ Cleanup("A")

SpecExtract == InitExtract /\ [][NextExtract]_vars

-----------------------------------------------------------------------------
(* chunkPages on lists of pages *)

\* paragraphs of 2500 characters: two sentences (letters, a full stop and a
\* space) of the lengths a and b, none for 0, then letters to the end
LongParagraphs ==
    LET Sentence(n) == IF n < 2 THEN "" ELSE Rep("a", n - 2) \o ". "
        SentenceLengths == {0, 200, 750, 801, 810, 850, 900, 999, 1000, 1001}
    IN  {Sentence(a) \o Sentence(b) \o Rep("a", 2500 - a - b) :
            a \in SentenceLengths, b \in SentenceLengths}

\* two pages: two short paragraphs on the first, a long paragraph on the second
InitTwoPages ==
    /\ offline = FALSE
    /\ chunks = <<>>
    /\ InitRun
    /\ anchorJob = IdleJob
    /\ job = NoRequest
    /\ select = NoSelection
    /\ ocr = <<>>
    /\ clock = 0
    /\ fs = {}
    /\ retry = NoRetry
    /\ pick = NoPick
    /\ chunkJob \in {[NoChunkJob EXCEPT
                         !.pages = PagesOf(<<"First paragraph.\n\nSecond one", long>>),
                         !.judgmentId = id] :
                        long \in LongParagraphs, id \in JudgmentIds}
InitChunk ==
    /\ offline = FALSE
    /\ chunks = <<>>
    /\ InitRun
    /\ anchorJob = IdleJob
    /\ job = NoRequest
    /\ select = NoSelection
    /\ ocr = <<>>
    /\ clock = 0
    /\ fs = {}
    /\ retry = NoRetry
    /\ pick = NoPick
    /\ chunkJob \in {[NoChunkJob EXCEPT !.pages = ps, !.judgmentId = id] :
                        ps \in PageLists, id \in JudgmentIds}

\* chunkingService.chunkPages(pages, judgmentId)
CallChunkPages ==
    /\ Len(chunkJob.results) < MaxChunkCalls
    /\ LET result == chunkPages(chunkJob.pages, chunkJob.judgmentId, chunkJob.service)
           entry == FreshCounters(chunkJob.service)
       IN  chunkJob' =
             [chunkJob EXCEPT
                !.results = Append(chunkJob.results, result),
                !.service = [globalParagraphCounter |-> result.statistics.totalParagraphs,
                             chunkCounter |-> entry.chunkCounter + result.totalChunks]]
    /\ UNCHANGED <<runVarsOfRun, anchorJob, job, select, ocr, clock, fs, retry, pick>>

NextChunk == CallChunkPages

SpecChunk == InitChunk /\ [][NextChunk]_vars

SpecTwoPages == InitTwoPages /\ [][NextChunk]_vars

-----------------------------------------------------------------------------
(* callLLMWithRetry with its backoff timer *)

InitRetry ==
    /\ offline = FALSE
    /\ chunks = <<>>
    /\ InitRun
    /\ anchorJob = IdleJob
    /\ job = NoRequest
    /\ select = NoSelection
    /\ ocr = <<>>
    /\ clock = 0
    /\ fs = {}
    /\ chunkJob = NoChunkJob
    /\ retry = NoRetry
    /\ pick = NoPick

RetryUnchanged ==
    UNCHANGED <<runVarsOfRun, anchorJob, job, select, ocr, clock, fs, chunkJob, pick>>

\* an attempt begun or ended, as the log keeps it
Attempted(event) ==
    Append(retry.log, [event |-> event, attempt |-> retry.attempt, time |-> retry.now])

\* time passes while create() or the timer is pending
TimePasses ==
    /\ retry.at \in {"create", "wait"}
    /\ retry.now < MaxTime * 1000
    /\ retry' = [retry EXCEPT !.now = retry.now + 1000]
    /\ RetryUnchanged

\* callLLMWithRetry is called: attempt = 0 and the first create()
CallLLM ==
    /\ retry.at = "idle"
    /\ retry' = [retry EXCEPT !.at = "create", !.attempt = 0,
                              !.inFlight = retry.inFlight + 1,
                              !.log = Attempted("start")]
    /\ RetryUnchanged

\* create() resolves: return response.choices[0].message
CreateResolves ==
    /\ retry.at = "create"
    /\ retry' = [retry EXCEPT !.at = "returned",
                              !.inFlight = retry.inFlight - 1,
                              !.log = Attempted("ok")]
    /\ RetryUnchanged

\* create() rejects: the last attempt rethrows, an earlier one warns and sets
\* the timer
CreateRejects ==
    /\ retry.at = "create"
    /\ retry' = [retry EXCEPT
                    !.at = IF RetriesLeft(retry.attempt) THEN "wait" ELSE "thrown",
                    !.due = IF RetriesLeft(retry.attempt)
                            THEN retry.now + Backoff(retry.attempt) ELSE retry.due,
                    !.inFlight = retry.inFlight - 1,
                    !.log = Attempted("fail")]
    /\ RetryUnchanged

\* the timer fires, not before its time: attempt++ and the next create()
TimerFires ==
    /\ retry.at = "wait"
    /\ retry.now >= retry.due
    /\ retry' = [retry EXCEPT
                    !.at = "create",
                    !.attempt = retry.attempt + 1,
                    !.inFlight = retry.inFlight + 1,
                    !.log = Append(retry.log,
                                   [event |-> "start", attempt |-> retry.attempt + 1,
                                    time |-> retry.now])]
    /\ RetryUnchanged

NextRetry ==
    \/ TimePasses
    \/ CallLLM
    \/ CreateResolves
    \/ CreateRejects
    \/ TimerFires

SpecRetry == InitRetry /\ [][NextRetry]_vars

-----------------------------------------------------------------------------
(* selectRelevantChunks on chunk lists *)

InitPick ==
    /\ offline = FALSE
    /\ chunks \in {ChunkList(n) : n \in 0..MaxListLen}
    /\ InitRun
    /\ anchorJob = IdleJob
    /\ job = NoRequest
    /\ select = NoSelection
    /\ ocr = <<>>
    /\ clock = 0
    /\ fs = {}
    /\ chunkJob = NoChunkJob
    /\ retry = NoRetry
    /\ pick \in {[NoPick EXCEPT !.step = st] : st \in Range(analysisStepOrder)}

\* this.selectRelevantChunks(chunks, step)
ApplyPick ==
    /\ ~pick.applied
    /\ pick' = [pick EXCEPT !.applied = TRUE,
                            !.result = selectRelevantChunks(chunks, pick.step)]
    /\ UNCHANGED <<runVarsOfRun, anchorJob, job, select, ocr, clock, fs, chunkJob, retry>>

SpecPick == InitPick /\ [][ApplyPick]_vars

-----------------------------------------------------------------------------
(* Properties *)

StepNames(kids) == [i \in 1..Len(kids) |-> kids[i].k]

Stored == Range(StepNames(stepResults))

FirstSteps(n) == {analysisStepOrder[i] : i \in 1..n}

IndexOf(name) == CHOOSE i \in 1..NumSteps : analysisStepOrder[i] = name

InStep == runState = "Running" /\ phase \in {"offline", "call", "backoff", "parse"}

\* the error text names the step
Names(text, name) == Includes(text, name)

\* C1: the context handed to generateAnalysisPrompt for step K holds, in order,
\* the parsed results of exactly the steps 1..K-1, and while step K is in
\* progress the prompt arguments are those of step K.
C1_ContextIsPriorSteps ==
    /\ InStep => promptArgs.step = step
    /\ promptArgs.step # "" =>
         LET K == IndexOf(promptArgs.step)
             ctx == promptArgs.context
         IN  /\ StepNames(ctx) = SubSeq(analysisStepOrder, 1, K - 1)
             /\ \A i \in 1..(K - 1) :
                  /\ stepResults[i].k = analysisStepOrder[i]
                  /\ ctx[i].val = stepResults[i].val.result

C1_Witness ==
    /\ ~offline
    /\ promptArgs.step = "summary"
    /\ Len(promptArgs.context) = NumSteps - 1
    /\ promptArgs.context[2].val # promptArgs.context[1].val

\* C2: the started steps are a prefix of the fixed order, the stored steps are
\* a prefix of the started ones, at most one started step is not yet stored,
\* and whatever the loop body does (offline generation, backend call, backoff,
\* parse) it does for that one step, with every earlier step stored.
C2_StrictlySequential ==
    /\ started = FirstSteps(Cardinality(started))
    /\ StepNames(stepResults) = SubSeq(analysisStepOrder, 1, Len(stepResults))
    /\ Stored \subseteq started
    /\ Cardinality(started \ Stored) <= 1
    /\ InStep => /\ started \ Stored = {step}
                 /\ Len(stepResults) = stepIdx - 1
    /\ (runState = "Running" /\ phase = "begin") => started = Stored

C2_Witness ==
    /\ ~offline
    /\ phase = "parse"
    /\ stepIdx = NumSteps
    /\ attempt = RETRIES

C3_Terminal == runState \in {"Completed", "Failed"}

C3_StateInv ==
    /\ runState \in {"NotStarted", "Running", "Completed", "Failed"}
    /\ runState = "Completed" =>
         /\ outcome.kind = "returned"
         /\ ~outcome.value.null
         /\ StepNames(outcome.value.steps) = analysisStepOrder
         /\ \A i \in 1..NumSteps : outcome.value.steps[i].val.step = analysisStepOrder[i]
    /\ runState = "Failed" =>
         /\ outcome.kind = "thrown"
         /\ step \notin Stored
         /\ started = FirstSteps(stepIdx)
    /\ runState \in {"NotStarted", "Running"} => outcome.kind = "none"

\* C3: a run ends Completed or Failed and stays there: once terminal, no step is
\* started, no backend call is made and nothing is stored; Failed is entered at
\* the first failing step; Completed carries the ten step results in the
\* fixed order.
C3_TerminalStates ==
    /\ []C3_StateInv
    /\ [][C3_Terminal =>
            UNCHANGED <<runState, stepIdx, phase, calls, attempt, started,
                        stepResults, stepContext, totalTokens, outcome>>]_vars

C3_Witness ==
    /\ ~offline
    /\ runState = "Completed"
    /\ pc = "done"
    /\ varied = MaxVaried

\* what can be read of a run once it is over: the steps of the value
\* analyzeJudgment returned and the steps of the status record's result
Retrievable == Range(outcome.value.steps) \cup Range(record.result.steps)

\* C4: after a failed run whose status has been written, every step result
\* stored before the failure is retrievable from the outcome or the record.
C4_CompletedStepsRetrievable ==
    (runState = "Failed" /\ pc = "done") => Range(stepResults) \subseteq Retrievable

\* every create() call of the step in progress threw: no message was returned
NoCallSucceeded == response = NoMessage

\* C5: a failed backend call is retried at most RETRIES times, so a step makes
\* at most RETRIES + 1 calls, each after the failure of the one before; a run
\* that fails on the backend call has made exactly RETRIES + 1 calls for the
\* failing step and throws an error carrying that step's name.
C5_RetryBound ==
    /\ attempt <= RETRIES
    /\ calls <= RETRIES + 1
    /\ (runState = "Running" /\ phase = "call") => (calls = attempt /\ NoCallSucceeded)
    /\ (runState = "Running" /\ phase = "backoff") =>
         (calls = attempt + 1 /\ attempt < RETRIES /\ NoCallSucceeded)
    /\ (runState = "Failed" /\ ~offline /\ NoCallSucceeded) =>
         /\ calls = RETRIES + 1
         /\ attempt = RETRIES
         /\ outcome.kind = "thrown"
         /\ Names(outcome.error.message, "Analysis step '" \o step \o "' failed")

C5_Witness ==
    /\ runState = "Failed"
    /\ NoCallSucceeded
    /\ calls = RETRIES + 1
    /\ stepIdx = 2
    /\ pc = "done"
    /\ record.status = "failed"

\* a live backend has been called and has returned nothing but non-JSON text
AlwaysNonJson == ~offline /\ onlyNonJson /\ (calls >= 1 \/ Len(stepResults) >= 1)

\* C6 as stated: with a backend that always returns non-JSON text the failed
\* run has made RETRIES + 1 backend calls for the failing step.
C6_FailsAfterAllRetries ==
    (AlwaysNonJson /\ runState = "Failed") => calls = RETRIES + 1

\* C6 amended: with a backend that always returns non-JSON text the run makes
\* one backend call, for the first step, stores nothing, fails on parsing that
\* response without any retry, and the error text written to the status record
\* names that step.
C6_FailsOnFirstResponse ==
    AlwaysNonJson =>
        /\ calls = 1 /\ attempt = 0
        /\ stepIdx = 1
        /\ stepResults = <<>>
        /\ \/ (runState = "Running" /\ phase = "parse")
           \/ runState = "Failed"
        /\ runState = "Failed" =>
             Names(outcome.error.message, "Analysis step '" \o step \o "' failed")
        /\ pc = "done" =>
             /\ record.status = "failed"
             /\ ~record.error.null
             /\ Names(record.error.text, "Analysis step '" \o step \o "' failed")
             /\ record.result.null

C6_Witness ==
    /\ AlwaysNonJson
    /\ runState = "Failed"
    /\ pc = "done"
    /\ record.status = "failed"

\* the returned text is absent, empty or not JSON
Unparseable(content) ==
    \/ ~content.present
    \/ content.text = ""
    \/ ~JSONParse(content.text).ok

\* C7: when the text returned for a step is absent, empty or not JSON, parsing
\* fails the step: the run becomes Failed with an error naming the step, nothing
\* is stored for the step and no other step is started; a failed run holds no
\* result and no context entry for the failing step.
C7_UnparseableFailsStep ==
    /\ [](runState = "Failed" =>
            /\ step \notin Stored
            /\ step \notin Range(StepNames(stepContext))
            /\ Names(outcome.error.message, "Analysis step '" \o step \o "' failed"))
    /\ [][(runState = "Running" /\ phase = "parse" /\ Unparseable(response.content)
           /\ phase' # "parse") =>
            /\ runState' = "Failed"
            /\ Names(outcome'.error.message, "step " \o step)
            /\ UNCHANGED <<stepIdx, stepResults, stepContext, totalTokens, started>>]_vars

C7_Witness ==
    /\ runState = "Failed"
    /\ response # NoMessage
    /\ Unparseable(response.content)
    /\ stepIdx = 3
    /\ Len(stepResults) = 2

\* JSON.parse accepts the text returned for the step in progress
ParsedValue == JSONParse(response.content.text).value

ResponseParses ==
    /\ response # NoMessage
    /\ response.content.present
    /\ response.content.text # ""
    /\ JSONParse(response.content.text).ok

\* C8 as stated: a run never fails on a step whose returned text parsed as JSON
\* but lacks required fields of the step.
C8_MissingFieldsNeverFail ==
    ~ /\ runState = "Failed"
      /\ ResponseParses
      /\ MissingFields(ParsedValue, step) # {}

\* C8 amended: when the parsed result is a JSON object or array that lacks
\* required fields of the step, the step does not fail: the parsed value is
\* stored unchanged as step result and context entry, the next step starts (or
\* the run completes after the last step), and apart from the logged warnings
\* the next state is the one the store of any parsed value produces.
C8_MissingFieldsTolerated ==
    [][(runState = "Running" /\ phase = "parse" /\ ResponseParses
        /\ IsObject(ParsedValue) /\ MissingFields(ParsedValue, step) # {}
        /\ phase' # "parse") =>
         /\ stepResults' =
              Append(stepResults,
                     Kid(step, [step |-> step, result |-> ParsedValue,
                                anchors |-> extractAnchors(ParsedValue),
                                model |-> MODEL, tokensUsed |-> tokensOf(response)]))
         /\ stepContext' = Append(stepContext, Kid(step, ParsedValue))
         /\ totalTokens' = totalTokens + tokensOf(response)
         /\ runState' # "Failed"
         /\ IF stepIdx < NumSteps
            THEN stepIdx' = stepIdx + 1 /\ phase' = "begin" /\ runState' = "Running"
            ELSE runState' = "Completed"
         /\ warned' = warned \cup {<<step, f>> : f \in MissingFields(ParsedValue, step)}
         /\ UNCHANGED <<record, started, calls, attempt>>]_vars

C8_Witness ==
    /\ runState = "Running"
    /\ phase = "call"
    /\ stepIdx = 2
    /\ stepResults[1].val.model = MODEL
    /\ MissingFields(stepResults[1].val.result, "metadata") # {}
    /\ stepContext[1].val = stepResults[1].val.result
    /\ <<"metadata", "caseName">> \in warned

-----------------------------------------------------------------------------
(* Properties of extractAnchors *)

\* the positions of the sub-values of a value: sequences of property indices
RECURSIVE LocationsOf(_)
LocationsOf(value) ==
    {<<>>} \cup UNION {{<<i>> \o l : l \in LocationsOf(value.kids[i].val)} :
                         i \in 1..Len(value.kids)}

RECURSIVE At(_, _)
At(value, loc) ==
    IF loc = <<>> THEN value ELSE At(value.kids[loc[1]].val, Tail(loc))

\* the path of a position: property names joined by ".", array indices as [i]
RECURSIVE PathTo(_, _, _)
PathTo(value, loc, acc) ==
    IF loc = <<>> THEN acc
    ELSE LET kid == value.kids[loc[1]]
             next == IF value.t = "arr" THEN acc \o "[" \o kid.k \o "]"
                     ELSE IF acc = "" THEN kid.k
                     ELSE acc \o "." \o kid.k
         IN  PathTo(kid.val, Tail(loc), next)

\* the sub-objects that carry an "anchor" field
AnchoredAt(value) ==
    {loc \in LocationsOf(value) : At(value, loc).t = "obj" /\ "anchor" \in Keys(At(value, loc))}

EntryFor(value, loc) ==
    [path |-> PathTo(value, loc, ""), anchor |-> Get(At(value, loc), "anchor")]

Occurrences(list, e) == Cardinality({i \in 1..Len(list) : list[i] = e})

\* the list holds one entry per position of locs, and nothing else
ListsExactly(list, value, locs) ==
    /\ Len(list) = Cardinality(locs)
    /\ \A loc \in locs :
         Occurrences(list, EntryFor(value, loc))
           = Cardinality({l \in locs : EntryFor(value, l) = EntryFor(value, loc)})

\* C9 as stated: every sub-object carrying an "anchor" field, whatever its
\* value, has exactly one entry in the anchor list, with its path, and the list
\* holds nothing else.
C9_EveryAnchorFieldListed ==
    anchorJob.done =>
        ListsExactly(anchorJob.output, anchorJob.input, AnchoredAt(anchorJob.input))

\* C9 amended: every sub-object carrying an "anchor" field with a truthy value
\* (not null, 0, "" or false) has exactly one entry in the anchor list, with
\* the path built from the property names and array indices leading to it, and
\* the list holds nothing else; a sub-object whose anchor is falsy has no entry.
C9_TruthyAnchorsListed ==
    anchorJob.done =>
        ListsExactly(anchorJob.output, anchorJob.input,
                     {loc \in AnchoredAt(anchorJob.input) :
                        Truthy(Get(At(anchorJob.input, loc), "anchor"))})

C9_Witness ==
    /\ anchorJob.done
    /\ Len(anchorJob.output) = 1
    /\ anchorJob.output[1].path = "a.a"
    /\ \E loc \in AnchoredAt(anchorJob.input) :
         ~Truthy(Get(At(anchorJob.input, loc), "anchor"))

\* C10: the totalTokensUsed of the returned result is the sum of the usage the
\* backend reported on the successful call of each step.
C10_TotalIsReportedUsage ==
    runState = "Completed" => outcome.value.totalTokensUsed = reported

-----------------------------------------------------------------------------
(* The ingestion job and its status record *)

\* a storage call of the job threw: the write of the completed result, the
\* write of the failure or updateJudgment
StoreFault ==
    \/ caught \in StorageErrors
    \/ pc = "rejected"
    \/ job.failedIn = "store"
    \/ job.at = "unhandled"

\* the record says failed, with an error text that names the phase
RecordedAsFailed(mark) ==
    /\ record.status = "failed"
    /\ ~record.error.null
    /\ record.error.text # ""
    /\ Names(record.error.text, mark)
    /\ record.result.null

C11_FailureRecorded ==
    (job.at = "ended" /\ ~StoreFault) =>
        /\ job.failedIn = "extraction" => RecordedAsFailed("extract")
        /\ job.failedIn = "source" => RecordedAsFailed("Citation resolution")
        /\ runState = "Failed" =>
             RecordedAsFailed("Analysis step '" \o step \o "' failed")
        /\ (job.failedIn = "none" /\ runState # "Failed") => record.status # "failed"

PipelineStarted ==
    \/ job.at \in {"extract", "updateJudgment", "chunk", "analysis", "catch",
                   "unhandled"}
    \/ pc # "idle"
    \/ started # {}
    \/ chunks # <<>>

C12_Answered ==
    /\ job.at # "created" => job.reply = Accepted(AnalysisId)
    /\ PipelineStarted => job.reply.sent
    /\ job.at = "created" => ENABLED Respond

\* C12: the handler answers 202 with the analysis id as its first step, with
\* nothing of the pipeline started, and the answer sent never changes whatever
\* the background task does afterwards.
C12_AnsweredBeforePipeline ==
    /\ []C12_Answered
    /\ [][job.reply.sent => job.reply' = job.reply]_vars

C12_Witness ==
    /\ job.reply = Accepted(AnalysisId)
    /\ job.at = "ended"
    /\ runState = "Failed"
    /\ record.status = "failed"

-----------------------------------------------------------------------------
(* The choice of the extraction method *)

\* C13 as stated: a total text length below 50 x pageCount selects OCR, a
\* length at or above 50 x pageCount selects digital.
C13_DigitalAtOrAboveThreshold ==
    select.applied =>
        LET T == TotalText(select.pages)
        IN  /\ T < 50 * select.totalPages => select.method = "ocr"
            /\ T >= 50 * select.totalPages => select.method = "digital"

\* C13 amended: a total text length of at most 50 x pageCount, the length
\* 50 x pageCount itself included, selects OCR; only a length above
\* 50 x pageCount selects digital. The pages are those of the document and the
\* length counted is that of the page texts.
C13_DigitalAboveThreshold ==
    select.applied =>
        LET T == TotalText(select.pages)
        IN  /\ select.totalPages = select.data.numpages
            /\ Len(select.pages) = select.totalPages
            /\ T <= Len(select.data.text)
            /\ T <= 50 * select.totalPages => select.method = "ocr"
            /\ T > 50 * select.totalPages => select.method = "digital"

C13_Witness ==
    /\ select.applied
    /\ select.totalPages = MaxPages
    /\ TotalText(select.pages) = 50 * select.totalPages
    /\ select.method = "ocr"

-----------------------------------------------------------------------------
(* The scoped resources of the OCR path *)

Settled(call) == call.at \in {"returned", "thrown"}

\* mkdir has resolved for the call
DirCreated(call) == call.created

C14_Released ==
    \A c \in CallIds :
        LET call == ocr[c]
        IN  /\ (Settled(call) /\ DirCreated(call)) => call.rm # "no"
            /\ Settled(call) => call.worker # "live"
            /\ call.rm # "no" => call.worker # "live"
            /\ call.at = "cleanup" => call.worker # "live"
            /\ (call.worker = "none" /\ call.at \notin {"idle", "mkdir", "parse",
                                                       "createWorker"})
                 => /\ call.at \in {"cleanup", "thrown"}
                    /\ call.pages = <<>>

C15_Atomic ==
    \A c \in CallIds :
        LET call == ocr[c]
        IN  /\ call.failedPage # 0 =>
                 /\ call.at \in {"terminate", "cleanup", "thrown"}
                 /\ ~call.result.returned
                 /\ call.touched = 1..call.failedPage
                 /\ Len(call.pages) = call.failedPage - 1
                 /\ call.at = "thrown" =>
                      /\ call.error.isError
                      /\ Names(call.error.message, "Failed to extract PDF: ")
            /\ call.result.returned =>
                 /\ call.at = "returned"
                 /\ call.failedPage = 0
                 /\ call.result.totalPages = call.numpages
                 /\ Len(call.result.pages) = call.numpages
                 /\ \A i \in 1..Len(call.result.pages) :
                      call.result.pages[i] = PageContent(i, OcrText(i), "ocr")

\* C15: when convert or recognize fails for a page the call ends by throwing:
\* it returns no ExtractionResult, the pages recognized before are dropped with
\* it and no page after the failing one is handed to convert; a result that is
\* returned holds every page of the document, in order.
C15_PageFailureFailsExtraction ==
    /\ []C15_Atomic
    /\ [][\A c \in CallIds :
            ocr[c].failedPage # 0 =>
                /\ ocr'[c].failedPage = ocr[c].failedPage
                /\ ocr'[c].touched = ocr[c].touched
                /\ ocr'[c].pages = ocr[c].pages
                /\ ocr'[c].result = NoExtraction]_vars

C15_Witness ==
    \E c \in CallIds :
        /\ ocr[c].at = "thrown"
        /\ ocr[c].totalPages = MaxOcrPages
        /\ ocr[c].failedPage = MaxOcrPages - 1
        /\ ocr[c].error = ExtractFailure(Err("recognize failed"))
        /\ ~ocr[c].result.returned

\* the call works in its temporary directory: mkdir has resolved and the call
\* has not yet left extractWithOCR
UsesDir(call) == call.created /\ ~Settled(call)

\* C16: two calls that are in their OCR path at the same time never work in
\* the same temporary directory, and the directory of a call that is still
\* running is not removed by the cleanup of another call.
C16_ExclusiveTempDir ==
    /\ \A a, b \in CallIds :
         (a # b /\ UsesDir(ocr[a]) /\ UsesDir(ocr[b])) => ocr[a].tempDir # ocr[b].tempDir
    /\ \A c \in CallIds : UsesDir(ocr[c]) => ocr[c].tempDir \in fs

-----------------------------------------------------------------------------
(* The chunks of chunkPages *)

\* the non-empty paragraphs of the pages in reading order, each with the
\* number of its page
RECURSIVE ParagraphsOf(_)
ParagraphsOf(pages) ==
    IF Len(pages) = 0 THEN <<>>
    ELSE LET ps == extractParagraphs(pages[1].text)
         IN  [i \in 1..Len(ps) |-> [pageNumber |-> pages[1].pageNumber, text |-> ps[i]]]
             \o ParagraphsOf(Tail(pages))

\* the chunk is anchored in paragraph number k of the document, paras[k]
AnchoredIn(chunk, paras) ==
    LET a == chunk.anchor
    IN  /\ a.paragraphNumber \in 1..Len(paras)
        /\ LET para == paras[a.paragraphNumber]
           IN  /\ para.pageNumber = a.pageNumber
               /\ NonBlank(para.text)
               /\ \E i \in 1..Len(chunkJob.pages) :
                    chunkJob.pages[i].pageNumber = a.pageNumber
               /\ 0 <= a.startChar /\ a.startChar <= a.endChar
               /\ a.endChar <= Len(para.text)
               /\ chunk.text \in {Substring(para.text, a.startChar, a.endChar),
                                  Trim(Substring(para.text, a.startChar, a.endChar))}
        /\ chunk.metadata.pageNumber = a.pageNumber
        /\ chunk.metadata.paragraphNumber = a.paragraphNumber

\* C17: every chunk is anchored in a non-empty paragraph of the page its anchor
\* names, the paragraphs being numbered through the document; the chunks come
\* in reading order (page by page, paragraph by paragraph, window by window),
\* so paragraph numbers never decrease, and every non-empty paragraph has a
\* chunk.
C17_AnchorsValidAndOrdered ==
    \A r \in Range(chunkJob.results) :
        LET paras == ParagraphsOf(chunkJob.pages)
            cs == r.chunks
        IN  /\ \A i \in 1..Len(cs) : AnchoredIn(cs[i], paras)
            /\ \A i \in 1..(Len(cs) - 1) :
                 LET a == cs[i].anchor
                     b == cs[i + 1].anchor
                 IN  /\ a.pageNumber <= b.pageNumber
                     /\ a.paragraphNumber <= b.paragraphNumber
                     /\ a.paragraphNumber = b.paragraphNumber =>
                          a.startChar < b.startChar /\ a.endChar < b.endChar
                     /\ b.paragraphNumber <= a.paragraphNumber + 1
            /\ Len(cs) > 0 => cs[1].anchor.paragraphNumber = 1
            /\ Len(cs) > 0 => cs[Len(cs)].anchor.paragraphNumber = Len(paras)
            /\ Len(cs) = 0 => Len(paras) = 0
            /\ r.statistics.totalParagraphs = Len(paras)

C17_Witness ==
    /\ Len(chunkJob.results) >= 1
    /\ Len(chunkJob.pages) = MaxChunkPages
    /\ LET cs == chunkJob.results[1].chunks
       IN  /\ Len(cs) >= 6
           /\ \E i \in 1..(Len(cs) - 1) :
                /\ cs[i].anchor.pageNumber = MaxChunkPages
                /\ cs[i].anchor.paragraphNumber > 4
                /\ cs[i + 1].anchor.paragraphNumber = cs[i].anchor.paragraphNumber

\* the chunks anchored in paragraph number k, in the order of emission
ChunksOfParagraph(cs, k) ==
    LET at == {i \in 1..Len(cs) : cs[i].anchor.paragraphNumber = k}
        RECURSIVE Build(_)
        Build(S) == IF S = {} THEN <<>>
                    ELSE <<cs[Least(S)]>> \o Build(S \ {Least(S)})
    IN  Build(at)

\* the text without its first n characters
DropFirst(text, n) == IF n >= Len(text) THEN "" ELSE SubSeq(text, n + 1, Len(text))

\* the chunk texts joined, each without the characters its anchor shares with
\* the anchor of its predecessor
RECURSIVE RebuiltByAnchors(_, _, _)
RebuiltByAnchors(parts, i, acc) ==
    IF i > Len(parts) THEN acc
    ELSE RebuiltByAnchors(parts, i + 1,
             acc \o DropFirst(parts[i].text,
                              IF i = 1 THEN 0
                              ELSE Max(0, parts[i - 1].anchor.endChar
                                          - parts[i].anchor.startChar)))

\* the longest end of acc, of at most OVERLAP_SIZE characters, that text
\* begins with
SharedLength(acc, text) ==
    LET fits == {k \in 0..Min(OVERLAP_SIZE, Min(Len(acc), Len(text))) :
                    SubSeq(acc, Len(acc) - k + 1, Len(acc)) = SubSeq(text, 1, k)}
    IN  CHOOSE k \in fits : \A j \in fits : j <= k

\* the chunk texts joined, each without the beginning it shares with the end
\* of the text before it
RECURSIVE RebuiltByMatching(_, _, _)
RebuiltByMatching(parts, i, acc) ==
    IF i > Len(parts) THEN acc
    ELSE RebuiltByMatching(parts, i + 1,
             acc \o DropFirst(parts[i].text, SharedLength(acc, parts[i].text)))

\* C18: for every paragraph the texts of its chunks, joined after the overlap
\* with the predecessor is removed (counted by the anchors, or found by
\* matching the texts), give back the text of the paragraph.
C18_ParagraphsReconstructed ==
    \A r \in Range(chunkJob.results) :
        LET paras == ParagraphsOf(chunkJob.pages)
        IN  \A k \in 1..Len(paras) :
              LET parts == ChunksOfParagraph(r.chunks, k)
              IN  \/ RebuiltByAnchors(parts, 1, "") = paras[k].text
                  \/ RebuiltByMatching(parts, 1, "") = paras[k].text

\* the text ends with its last n characters, which the other text begins with
EndIsBeginningOf(text, n, other) ==
    /\ Len(text) >= n
    /\ Len(other) >= n
    /\ SubSeq(text, Len(text) - n + 1, Len(text)) = SubSeq(other, 1, n)

\* C19: for two consecutive chunks of an oversized paragraph, the first of a
\* window whose end was not pulled back to a sentence end, the last
\* OVERLAP_SIZE (100) characters of the first chunk's text are the beginning of
\* the second chunk's text.
C19_TrailingOverlapIsPrefix ==
    \A r \in Range(chunkJob.results) :
        \A i \in 1..(Len(r.chunks) - 1) :
            LET a == r.chunks[i]
                b == r.chunks[i + 1]
            IN  (/\ a.anchor.paragraphNumber = b.anchor.paragraphNumber
                 /\ a.anchor.endChar - a.anchor.startChar = MAX_CHUNK_SIZE)
                => EndIsBeginningOf(a.text, OVERLAP_SIZE, b.text)

ChunkIdsOf(result) == [i \in 1..Len(result.chunks) |-> result.chunks[i].chunkId]

\* C20: every call of chunkPages on the same pages with the same judgment id
\* gives the same chunkIds and the same statistics, and the chunkId of the
\* chunk at running index i is made of the judgment id, the page number and the
\* paragraph number of its anchor, and i.
C20_Idempotent ==
    /\ \A i, j \in 1..Len(chunkJob.results) :
         /\ ChunkIdsOf(chunkJob.results[i]) = ChunkIdsOf(chunkJob.results[j])
         /\ chunkJob.results[i].statistics = chunkJob.results[j].statistics
         /\ chunkJob.results[i].totalChunks = chunkJob.results[j].totalChunks
    /\ \A r \in Range(chunkJob.results) :
         \A i \in 1..Len(r.chunks) :
            r.chunks[i].chunkId =
                ToString(chunkJob.judgmentId) \o "-"
                    \o ToString(r.chunks[i].anchor.pageNumber) \o "-"
                    \o ToString(r.chunks[i].anchor.paragraphNumber) \o "-"
                    \o ToString(i - 1)

C20_Witness ==
    /\ Len(chunkJob.results) = MaxChunkCalls
    /\ Len(chunkJob.pages) = MaxChunkPages
    /\ chunkJob.results[1].totalChunks >= 6
    /\ chunkJob.results[MaxChunkCalls].statistics.totalParagraphs >= 5
    /\ ChunkIdsOf(chunkJob.results[1]) = ChunkIdsOf(chunkJob.results[MaxChunkCalls])

-----------------------------------------------------------------------------
(* The statistics of chunkPages *)

\* C21: the statistics of every result count what the call produced:
\* totalChunks the chunks, totalPages the pages handed in, totalParagraphs the
\* non-empty paragraphs of those pages, and averageChunkSize is the integer
\* nearest to the sum of the chunk text lengths divided by their number (the
\* upper one of two equally near), 0 when there is no chunk.
C21_StatisticsExact ==
    \A r \in Range(chunkJob.results) :
        LET n == Len(r.chunks)
            sum == TotalChunkSize(r.chunks)
            avg == r.statistics.averageChunkSize
        IN  /\ r.totalChunks = n
            /\ r.statistics.totalPages = Len(chunkJob.pages)
            /\ r.statistics.totalParagraphs = Len(ParagraphsOf(chunkJob.pages))
            /\ n = 0 => avg = 0
            /\ n > 0 => /\ 2 * avg * n <= 2 * sum + n
                        /\ 2 * sum + n < 2 * (avg + 1) * n

\* a result whose average is not a whole number and is rounded upwards
C21_Witness ==
    \E r \in Range(chunkJob.results) :
        LET n == Len(r.chunks)
            sum == TotalChunkSize(r.chunks)
        IN  /\ n >= 4
            /\ Len(chunkJob.pages) = MaxChunkPages
            /\ 2 * (sum % n) >= n
            /\ r.statistics.averageChunkSize * n > sum

-----------------------------------------------------------------------------
(* Two short paragraphs, then a paragraph of 2500 characters *)

\* the chunks of the result whose anchor is on the page
ChunksOfPage(r, pageNumber) ==
    SelectSeq(r.chunks, LAMBDA c : c.anchor.pageNumber = pageNumber)

\* C22: of two pages, the first with two short paragraphs separated by a blank
\* line and the second one paragraph of 2500 characters, chunkPages makes two
\* chunks for page 1, of paragraphs 1 and 2, and three or more chunks for page
\* 2, all of paragraph 3, each beginning before its predecessor ends, wherever
\* the sentences of the long paragraph end.
C22_TwoPageScenario ==
    (/\ Len(chunkJob.pages) = 2
     /\ Len(extractParagraphs(chunkJob.pages[1].text)) = 2
     /\ \A p \in Range(extractParagraphs(chunkJob.pages[1].text)) :
          Len(p) <= MAX_CHUNK_SIZE
     /\ extractParagraphs(chunkJob.pages[2].text) = <<chunkJob.pages[2].text>>
     /\ Len(chunkJob.pages[2].text) = 2500)
    => \A r \in Range(chunkJob.results) :
         LET one == ChunksOfPage(r, 1)
             two == ChunksOfPage(r, 2)
         IN  /\ r.chunks = one \o two
             /\ Len(one) = 2
             /\ one[1].anchor.paragraphNumber = 1
             /\ one[2].anchor.paragraphNumber = 2
             /\ Len(two) >= 3
             /\ \A i \in 1..Len(two) : two[i].anchor.paragraphNumber = 3
             /\ \A i \in 1..(Len(two) - 1) :
                  /\ two[i].anchor.startChar < two[i + 1].anchor.startChar
                  /\ two[i + 1].anchor.startChar < two[i].anchor.endChar

\* a long paragraph whose windows are pulled back to sentence ends, which
\* takes more than three chunks
C22_Witness ==
    /\ Len(chunkJob.pages) = 2
    /\ Len(chunkJob.pages[2].text) = 2500
    /\ \E r \in Range(chunkJob.results) :
         /\ Len(ChunksOfPage(r, 1)) = 2
         /\ Len(ChunksOfPage(r, 2)) > 3
         /\ \E i \in 1..Len(r.chunks) :
              r.chunks[i].anchor.endChar - r.chunks[i].anchor.startChar < MAX_CHUNK_SIZE - 100

-----------------------------------------------------------------------------
(* The user prompt of a step *)

\* C23: the user prompt of every step holds the instructions of the step, the
\* selected chunk text, and the serialized result of every step completed
\* before it.
C23_PromptCarriesAllPriorResults ==
    promptArgs.step # "" =>
        /\ [part |-> "instructions", step |-> promptArgs.step] \in Range(promptArgs.user)
        /\ [part |-> "text", text |-> promptArgs.chunksText] \in Range(promptArgs.user)
        /\ \A i \in 1..Len(promptArgs.context) :
             [part |-> "json", key |-> promptArgs.context[i].k,
              value |-> promptArgs.context[i].val] \in Range(promptArgs.user)

-----------------------------------------------------------------------------
(* The offline generator *)

\* C24: with either backend a step's result is stored by the same operations:
\* it is stored only after a backend call made under the retry policy and
\* the parse and validation of the response, in offline mode as online.
C24_SameOperationsOffline ==
    [][stepResults' # stepResults =>
         /\ phase = "parse"
         /\ calls >= 1
         /\ response # NoMessage]_vars

-----------------------------------------------------------------------------
(* The attempts of callLLMWithRetry *)

\* C25: the attempts of one call come one after the other: the first is
\* attempt 0, attempt k+1 begins only after attempt k has failed and at least
\* 2^k seconds have passed since (1 s before the second attempt, 2 s before the
\* third); a successful attempt and the failure of the last attempt end the
\* call at once, with no timer set; at no time are two create() calls pending.
C25_SequentialBackoff ==
    LET log == retry.log
    IN  /\ retry.inFlight \in {0, 1}
        /\ retry.inFlight = 1 <=> retry.at = "create"
        /\ retry.at = "wait" => RetriesLeft(retry.attempt)
        /\ retry.at = "wait" =>
             retry.due - log[Len(log)].time = (IF retry.attempt = 0 THEN 1000 ELSE 2000)
        /\ \A i \in 1..Len(log) :
             /\ i = 1 => log[i].event = "start" /\ log[i].attempt = 0
             /\ (i > 1 /\ log[i].event = "start") =>
                  /\ log[i - 1].event = "fail"
                  /\ log[i].attempt = log[i - 1].attempt + 1
                  /\ log[i].time >= log[i - 1].time + (2 ^ log[i - 1].attempt) * 1000
             /\ log[i].event \in {"ok", "fail"} =>
                  /\ i > 1
                  /\ log[i - 1].event = "start"
                  /\ log[i - 1].attempt = log[i].attempt
             /\ log[i].event = "ok" => i = Len(log) /\ retry.at = "returned"
             /\ (log[i].event = "fail" /\ log[i].attempt = RETRIES) =>
                  i = Len(log) /\ retry.at = "thrown"
             /\ log[i].attempt \in 0..RETRIES

\* three attempts, the third begun exactly when its timer was due
C25_Witness ==
    /\ retry.at = "returned"
    /\ Len(retry.log) = 6
    /\ retry.log[5].attempt = RETRIES
    /\ retry.log[5].time = retry.log[4].time + 2000
    /\ retry.log[3].time = retry.log[2].time + 1000

-----------------------------------------------------------------------------
(* The order of the pages in extractWithOCR *)

\* the pages of the call are worked on one at a time and in ascending order
C26_OneAtATime ==
    \A c \in CallIds :
        LET call == ocr[c]
        IN  /\ \A k \in 1..Len(call.pages) : call.pages[k].pageNumber = k
            /\ call.touched \in {1..Len(call.pages), 1..(Len(call.pages) + 1)}
            /\ call.at \in {"convert", "recognize"} =>
                 /\ call.worker = "live"
                 /\ call.pageNum = Len(call.pages) + 1
                 /\ call.pageNum <= call.totalPages
                 /\ call.touched = 1..call.pageNum
            /\ call.at \in {"idle", "mkdir", "parse", "createWorker"} =>
                 call.worker = "none" /\ call.touched = {}
            /\ call.result.returned =>
                 /\ Len(call.result.pages) = call.result.totalPages
                 /\ \A k \in 1..Len(call.result.pages) :
                      call.result.pages[k].pageNumber = k

\* C26: a call converts and recognizes its pages one at a time in the order
\* 1..totalPages, page k+1 being handed to convert only when page k has been
\* recognized, with the one worker it created; the pages it returns are in
\* that order, page k at position k.
C26_PagesInOrderOneWorker ==
    /\ []C26_OneAtATime
    /\ [][\A c \in CallIds :
            /\ (ocr'[c].worker = "live" /\ ocr[c].worker # "live") =>
                 ocr[c].worker = "none"
            /\ ocr'[c].touched # ocr[c].touched =>
                 /\ ocr'[c].touched = ocr[c].touched \cup {Len(ocr'[c].pages) + 1}
                 /\ Len(ocr'[c].pages) = Cardinality(ocr[c].touched)
                 /\ ocr'[c].worker = "live"]_vars

C26_Witness ==
    \E c \in CallIds :
        /\ ocr[c].result.returned
        /\ Len(ocr[c].result.pages) = MaxOcrPages
        /\ ocr[c].result.pages[MaxOcrPages].pageNumber = MaxOcrPages
        /\ ocr[c].worker = "terminated"

-----------------------------------------------------------------------------
(* The digital parse comes first *)

\* the OCR path of the call has not been entered: no directory, no worker
OcrUntouched ==
    /\ ocr["A"] = IdleCall(select.data.numpages)
    /\ fs = {}

C27_State ==
    /\ ~select.applied => OcrUntouched
    /\ select.method \in {"digital", "thrown"} => OcrUntouched
    /\ ~OcrUntouched =>
         /\ select.applied
         /\ select.method = "ocr"
         /\ ~select.error.isError
         /\ select.totalPages = select.data.numpages
         /\ TotalText(select.pages) <= 50 * select.totalPages
    /\ (select.applied /\ select.method # "thrown") =>
         (select.method = "digital"
            <=> TotalText(select.pages) > 50 * select.totalPages)
    /\ select.method = "thrown" => select.error.isError

\* C27: the digital parse is made first; extractWithOCR (its directory, its
\* worker) is entered only when the parse has succeeded and the characters of
\* its pages do not exceed 50 times the page count; once the digital result
\* is accepted, or the parse has failed, the OCR path is never entered.
C27_DigitalFirst ==
    /\ []C27_State
    /\ [][(select.method \in {"digital", "thrown"}) =>
            (select' = select /\ ocr' = ocr /\ fs' = fs)]_vars

C27_Witness ==
    /\ select.method = "ocr"
    /\ TotalText(select.pages) = 50 * select.totalPages
    /\ select.totalPages = MaxPages
    /\ ocr["A"].at = "returned"
    /\ ocr["A"].result.extractionMethod = "ocr"

-----------------------------------------------------------------------------
(* The paragraph counter *)

\* the non-empty paragraphs on the pages before the page
ParagraphsBefore(paras, pageNumber) ==
    Cardinality({k \in 1..Len(paras) : paras[k].pageNumber < pageNumber})

\* C28: the non-empty paragraphs of the document are numbered 1, 2, ..., N in
\* reading order by one counter: the chunks of a page carry the numbers that
\* follow those of the pages before it, every number from 1 to N occurs, and
\* a paragraph of white space only has no chunk and no number.
C28_OneCounterForTheDocument ==
    \A r \in Range(chunkJob.results) :
        LET paras == ParagraphsOf(chunkJob.pages)
            cs == r.chunks
            numbers == {cs[i].anchor.paragraphNumber : i \in 1..Len(cs)}
            onPage(p) == {k \in 1..Len(paras) : paras[k].pageNumber = p}
            numbersOn(p) == {cs[i].anchor.paragraphNumber :
                                i \in {j \in 1..Len(cs) : cs[j].anchor.pageNumber = p}}
        IN  /\ \A k \in 1..Len(paras) : Trim(paras[k].text) # ""
            /\ numbers = 1..Len(paras)
            /\ r.statistics.totalParagraphs = Len(paras)
            /\ \A p \in 1..Len(chunkJob.pages) :
                 numbersOn(p) = {ParagraphsBefore(paras, p) + j :
                                    j \in 1..Cardinality(onPage(p))}
            /\ \A i \in 1..Len(cs) :
                 LET para == paras[cs[i].anchor.paragraphNumber]
                     a == cs[i].anchor
                 IN  /\ para.pageNumber = a.pageNumber
                     /\ Trim(Substring(para.text, a.startChar, a.endChar)) = Trim(cs[i].text)
            /\ \A i \in 1..(Len(cs) - 1) :
                 cs[i + 1].anchor.paragraphNumber - cs[i].anchor.paragraphNumber \in {0, 1}

\* a page of white space only, then a page whose paragraphs are numbered from
\* 1 on and skip the paragraph of white space
C28_Witness ==
    /\ Len(chunkJob.pages) = 2
    /\ ~NonBlank(chunkJob.pages[1].text)
    /\ \E i \in 1..Len(chunkJob.pages[2].text) : IsSpace(CharAt(chunkJob.pages[2].text, i))
    /\ \E r \in Range(chunkJob.results) :
         /\ Len(r.chunks) = 4
         /\ r.chunks[1].anchor.pageNumber = 2
         /\ r.chunks[1].anchor.paragraphNumber = 1
         /\ r.chunks[2].text = "Second para."
         /\ r.chunks[2].anchor.paragraphNumber = 2

-----------------------------------------------------------------------------
(* The size of the chunks *)

\* C29: a paragraph of at most MAX_CHUNK_SIZE (1000) characters has exactly
\* one chunk, whose text is the paragraph and whose anchor runs from 0 to its
\* length; a longer paragraph has two or more chunks; no chunk text is longer
\* than 1000 characters.
C29_ChunkSizes ==
    \A r \in Range(chunkJob.results) :
        LET paras == ParagraphsOf(chunkJob.pages)
        IN  /\ \A k \in 1..Len(paras) :
                 LET parts == ChunksOfParagraph(r.chunks, k)
                     text == paras[k].text
                 IN  IF Len(text) <= 1000
                     THEN /\ Len(parts) = 1
                          /\ parts[1].text = text
                          /\ parts[1].anchor.startChar = 0
                          /\ parts[1].anchor.endChar = Len(text)
                     ELSE Len(parts) >= 2
            /\ \A i \in 1..Len(r.chunks) : Len(r.chunks[i].text) <= 1000

\* a paragraph of exactly 1000 characters in one chunk, and one of 1001
\* characters in two
C29_Witness ==
    /\ Len(chunkJob.pages) = 1
    /\ Len(chunkJob.pages[1].text) = 2 * MAX_CHUNK_SIZE + 3
    /\ \E r \in Range(chunkJob.results) :
         /\ Len(r.chunks) = 3
         /\ r.chunks[1].anchor.endChar = MAX_CHUNK_SIZE
         /\ Len(r.chunks[1].text) = MAX_CHUNK_SIZE
         /\ r.chunks[2].anchor.paragraphNumber = 2
         /\ r.chunks[2].anchor.endChar = MAX_CHUNK_SIZE
         /\ r.chunks[3].anchor.paragraphNumber = 2
         /\ r.chunks[3].anchor.endChar = MAX_CHUNK_SIZE + 1

-----------------------------------------------------------------------------
(* The end of a window *)

\* the ends (position after punctuation and white space) of the sentences
\* that end within the last 200 characters of the window of MAX_CHUNK_SIZE
\* characters that starts at position
SentenceEndsIn(text, position) ==
    {p + 2 : p \in {q \in (position + MAX_CHUNK_SIZE - 200)..(position + MAX_CHUNK_SIZE - 2) :
                      /\ CharAt(text, q + 1) \in {".", "!", "?"}
                      /\ IsSpace(CharAt(text, q + 2))}}

\* C30: a window of an oversized paragraph that does not reach the end of the
\* paragraph ends after the sentence end nearest to its size limit, of those in
\* its last 200 characters (punctuation followed by white space); with no
\* sentence end there it ends at the size limit.
C30_PulledBackToNearest ==
    \A r \in Range(chunkJob.results) :
        LET paras == ParagraphsOf(chunkJob.pages)
        IN  \A i \in 1..Len(r.chunks) :
              LET a == r.chunks[i].anchor
                  text == paras[a.paragraphNumber].text
                  ends == SentenceEndsIn(text, a.startChar)
              IN  (Len(text) > MAX_CHUNK_SIZE /\ a.startChar + MAX_CHUNK_SIZE < Len(text))
                  => a.endChar = IF ends = {} THEN a.startChar + MAX_CHUNK_SIZE
                                 ELSE CHOOSE e \in ends : \A f \in ends : f <= e

-----------------------------------------------------------------------------
(* The chunks selected for a step *)

-----------------------------------------------------------------------------
(* The digital path deals the extracted lines out to the pages *)

\* the 0-based line indices [(i-1)L, min(iL, n)) of page i
LinesOfPage(i, L, n) == {k \in 0..(n - 1) : (i - 1) * L <= k /\ k < Min(i * L, n)}

\* C32: the digital path returns exactly totalPages pages numbered
\* 1..totalPages in order; with n extracted lines and L = ceil(n / totalPages),
\* page i holds the lines [(i-1)L, min(iL, n)); every line is on exactly one
\* page, and the non-empty pages read in order give the lines in their
\* original order.
C32_LinesDealtInOrder ==
    select.applied =>
        LET lines == SplitOn(select.data.text, "\n")
            n == Len(lines)
            P == select.totalPages
            L == (n + P - 1) \div P
            held(i) == LinesOfPage(i, L, n)
            textOf(i) == Join([j \in 1..Cardinality(held(i)) |->
                                   lines[(i - 1) * L + j]], "\n")
            nonEmpty == {i \in 1..P : held(i) # {}}
        IN  /\ P = select.data.numpages
            /\ Len(select.pages) = P
            /\ \A i \in 1..P :
                   /\ select.pages[i].pageNumber = i
                   /\ select.pages[i].method = "digital"
                   /\ select.pages[i].text = textOf(i)
            /\ \A k \in 0..(n - 1) : Cardinality({i \in 1..P : k \in held(i)}) = 1
            /\ \A i, j \in 1..P : \A a \in held(i), b \in held(j) :
                   i < j => a < b
            /\ nonEmpty = 1..Cardinality(nonEmpty)
            /\ Join([i \in 1..Cardinality(nonEmpty) |-> select.pages[i].text], "\n")
                   = select.data.text

\* five lines dealt to four pages: two, two, one and none
C32_Witness ==
    /\ select.applied
    /\ select.data = PdfData("a\nbb\n\na\nbb", 4)
    /\ Len(select.pages) = 4
    /\ select.pages[3].text = "bb"
    /\ select.pages[4].text = ""

-----------------------------------------------------------------------------
(* The offline mode *)

\* C33: in offline mode a run never fails and makes no backend call: while it
\* runs it is between the prompt and the offline step, the token total stays
\* 0, and every stored step carries its step name in pipeline order, the model
\* 'offline', 0 tokens and every required field declared for the step; a
\* completed run has stored all ten steps and reports totalTokensUsed 0.
C33_OfflineCompletes ==
    offline =>
        /\ runState # "Failed"
        /\ runState = "Running" => phase \in {"begin", "offline"}
        /\ calls = 0 /\ reported = 0 /\ response = NoMessage
        /\ totalTokens = 0
        /\ \A i \in 1..Len(stepResults) :
               LET stored == stepResults[i]
               IN  /\ stored.k = analysisStepOrder[i]
                   /\ stored.val.step = analysisStepOrder[i]
                   /\ stored.val.model = "offline"
                   /\ stored.val.tokensUsed = 0
                   /\ \A f \in Range(requiredFields(analysisStepOrder[i])) :
                          f \in Keys(stored.val.result)
        /\ runState = "Completed" =>
               /\ Len(stepResults) = NumSteps
               /\ outcome.kind = "returned"
               /\ outcome.value.steps = stepResults
               /\ outcome.value.totalTokensUsed = 0

\* an offline run over a non-empty chunk list has completed and its result
\* is in the status record
C33_Witness ==
    /\ offline
    /\ chunks # <<>>
    /\ runState = "Completed"
    /\ record.status = "completed"
    /\ Len(record.result.steps) = NumSteps

-----------------------------------------------------------------------------
(* The windows of an oversized paragraph *)

\* C34: the anchors of the chunks of a paragraph longer than MAX_CHUNK_SIZE
\* cover it without gaps: the first starts at 0, each next one starts
\* OVERLAP_SIZE characters before the end of the one before it (which is
\* further on than MIN_CHUNK_SIZE characters after that one's start, so the
\* floor does not decide), and the last ends at the paragraph's length.
C34_AnchorsCoverParagraph ==
    \A r \in Range(chunkJob.results) :
        LET paras == ParagraphsOf(chunkJob.pages)
        IN  \A k \in 1..Len(paras) :
                LET parts == ChunksOfParagraph(r.chunks, k)
                    n == Len(paras[k].text)
                IN  n > MAX_CHUNK_SIZE =>
                      /\ Len(parts) >= 1
                      /\ parts[1].anchor.startChar = 0
                      /\ parts[Len(parts)].anchor.endChar = n
                      /\ \A i \in 1..(Len(parts) - 1) :
                           LET a == parts[i].anchor
                               b == parts[i + 1].anchor
                           IN  /\ b.startChar = a.endChar - OVERLAP_SIZE
                               /\ b.startChar > a.startChar + MIN_CHUNK_SIZE
                               /\ a.endChar < n
                      /\ \A c \in 0..(n - 1) :
                           \E i \in 1..Len(parts) :
                               /\ parts[i].anchor.startChar <= c
                               /\ c < parts[i].anchor.endChar

\* a paragraph of 2500 characters in four windows, the second of which starts
\* OVERLAP_SIZE characters before a sentence end the first was pulled back to
C34_Witness ==
    /\ Len(chunkJob.pages) = 2
    /\ \E r \in Range(chunkJob.results) :
         LET two == ChunksOfPage(r, 2)
         IN  /\ Len(two) = 4
             /\ two[1].anchor.endChar < MAX_CHUNK_SIZE
             /\ two[2].anchor.startChar = two[1].anchor.endChar - OVERLAP_SIZE
             /\ two[4].anchor.endChar = 2500

\* C35: splitting a paragraph longer than MAX_CHUNK_SIZE ends: every window
\* starts at least MIN_CHUNK_SIZE (200) characters after the one before it,
\* one chunk is emitted per window, so a paragraph of n characters has at most
\* ceil(n / 200) chunks, and the last chunk reaches the paragraph's end.
C35_SplitTerminates ==
    \A r \in Range(chunkJob.results) :
        LET paras == ParagraphsOf(chunkJob.pages)
        IN  \A k \in 1..Len(paras) :
                LET parts == ChunksOfParagraph(r.chunks, k)
                    n == Len(paras[k].text)
                IN  n > MAX_CHUNK_SIZE =>
                      /\ Len(parts) \in 1..((n + MIN_CHUNK_SIZE - 1) \div MIN_CHUNK_SIZE)
                      /\ \A i \in 1..(Len(parts) - 1) :
                           /\ parts[i + 1].anchor.startChar
                                 >= parts[i].anchor.startChar + MIN_CHUNK_SIZE
                           /\ parts[i + 1].anchor.startChar < n
                      /\ \A i \in 1..Len(parts) :
                           (parts[i].anchor.endChar >= n) <=> (i = Len(parts))

\* a paragraph of 2500 characters whose first two windows are both pulled
\* back to a sentence end, so that the third starts before character 1500
C35_Witness ==
    /\ Len(chunkJob.pages) = 2
    /\ Len(chunkJob.pages[2].text) = 2500
    /\ \E r \in Range(chunkJob.results) :
         LET two == ChunksOfPage(r, 2)
         IN  /\ Len(two) = 4
             /\ two[3].anchor.startChar < 1500
             /\ two[3].anchor.startChar >= 2 * MIN_CHUNK_SIZE

-----------------------------------------------------------------------------
(* The chunk identifiers of one result *)

\* the part of a chunkId after its last hyphen
IndexComponent(chunkId) ==
    LET hyphens == {i \in 1..Len(chunkId) : CharAt(chunkId, i) = "-"}
        last == CHOOSE i \in hyphens : \A j \in hyphens : j <= i
    IN  SubSeq(chunkId, last + 1, Len(chunkId))

\* C36: within one chunkPages result no two chunks have the same chunkId, and
\* the last component of the chunkId of the chunk at the 0-based position p
\* of the result is p, whether the chunk is a short paragraph or a window of
\* an oversized one and whatever its page.
C36_ChunkIdsDistinctAndIndexed ==
    \A r \in Range(chunkJob.results) :
        /\ \A i, j \in 1..Len(r.chunks) :
               i # j => r.chunks[i].chunkId # r.chunks[j].chunkId
        /\ \A i \in 1..Len(r.chunks) :
               IndexComponent(r.chunks[i].chunkId) = ToString(i - 1)

\* two short paragraphs on page 1, then the windows of an oversized paragraph
\* on page 2, the last of them with the index 5
C36_Witness ==
    /\ Len(chunkJob.results) = MaxChunkCalls
    /\ LET r == chunkJob.results[MaxChunkCalls]
       IN  /\ Len(ChunksOfPage(r, 1)) = 2
           /\ Len(r.chunks) = 6
           /\ r.chunks[2].chunkId = "7-1-2-1"
           /\ r.chunks[6].chunkId = "7-2-3-5"

-----------------------------------------------------------------------------
(* The terminal status written by runFullAnalysis *)

\* runFullAnalysis has returned and none of its writes threw: the record
\* holds the one terminal status of the invocation
C37_Written ==
    /\ pc \in {"writeCompleted", "writeFailed"} => record.status = "processing"
    /\ (pc = "done" /\ caught \notin StorageErrors) =>
         /\ runState \in {"Completed", "Failed"}
         /\ runState = "Completed" =>
              /\ record = [status |-> "completed", result |-> outcome.value,
                           error |-> NoText]
              /\ Len(record.result.steps) = NumSteps
         /\ runState = "Failed" =>
              /\ record.status = "failed"
              /\ record.result.null
              /\ ~record.error.null
              /\ record.error.text = MessageOf(outcome.error, "Unknown error")

\* C37: when its writes to the status store succeed, an invocation of
\* runFullAnalysis writes the record exactly once, from processing to a
\* terminal status: completed with the whole result and no error after a run
\* in which every step succeeded, failed with the error message otherwise; a
\* completed record never becomes failed, and runFullAnalysis rejects only
\* when its write of the failure itself threw, so the error of the pipeline
\* never reaches the catch of the task that called it.
C37_OneTerminalWrite ==
    /\ []C37_Written
    /\ [][/\ (record' # record /\ job.at = "analysis") =>
               /\ record.status = "processing"
               /\ record'.status \in {"completed", "failed"}
               /\ pc \in {"writeCompleted", "writeFailed"}
               /\ pc' = "done"
          /\ record.status = "completed" => record'.status = "completed"
          /\ (pc' = "rejected" /\ pc # "rejected") =>
               /\ pc = "writeFailed"
               /\ record' = record
          /\ (job.at = "analysis" /\ job'.at = "catch") => pc = "rejected"
          /\ (job.at = "analysis" /\ job'.at = "ended") =>
               /\ pc = "done"
               /\ record.status \in {"completed", "failed"}]_vars

\* a run over a live backend failed in a step, the failure was written and
\* the task that awaited runFullAnalysis went on past the call
C37_Witness ==
    /\ ~offline
    /\ job.at = "ended"
    /\ job.failedIn = "none"
    /\ pc = "done"
    /\ runState = "Failed"
    /\ stepIdx > 1
    /\ caught \notin StorageErrors
    /\ record.status = "failed"
    /\ record.error.text = MessageOf(outcome.error, "Unknown error")

-----------------------------------------------------------------------------
(* The record of a request is settled *)

\* C38: the analysis record the handler created with the status processing
\* eventually has the status completed or failed, whatever the source of the
\* request, when every awaited call returns or throws.
C38_EveryRecordSettles == <>(record.status \in {"completed", "failed"})

-----------------------------------------------------------------------------
(* The step catalog and the step order *)

\* the steps that come before step K in analysisStepOrder
StepsBefore(K) ==
    LET at == CHOOSE k \in 1..NumSteps : analysisStepOrder[k] = K
    IN  {analysisStepOrder[j] : j \in 1..(at - 1)}

\* every step of the order has a template, whose first placeholder is that of
\* the chunk text and whose other placeholders name earlier steps
CatalogConsistent ==
    /\ Range(analysisStepOrder) \subseteq TemplateSteps
    /\ \A K \in Range(analysisStepOrder) :
           LET holes == userPromptTemplate(K)
           IN  /\ holes[1] = "judgmentChunks"
               /\ \A i \in 2..Len(holes) : holes[i] \in StepsBefore(K)

\* C39: every step of analysisStepOrder has a prompt template, and every
\* context placeholder of the template of a step names a step that comes
\* before it in the order; the prompt built for a step, the steps before it
\* being completed, holds no placeholder that was not replaced, and every
\* result it holds is that of a step already completed.
C39_CatalogMatchesOrder ==
    /\ CatalogConsistent
    /\ promptArgs.step # "" =>
           LET before == StepsBefore(promptArgs.step)
           IN  /\ promptArgs.step \in Range(analysisStepOrder)
               /\ {promptArgs.context[i].k : i \in 1..Len(promptArgs.context)} = before
               /\ \A i \in 1..Len(promptArgs.user) :
                      LET p == promptArgs.user[i]
                      IN  /\ p.part # "placeholder"
                          /\ p.part = "json" => (p.key \in before /\ p.key \in started)

\* the prompt of the last step over a live backend: the instructions, the
\* chunk text and the results of the nine steps before it
C39_Witness ==
    /\ ~offline
    /\ promptArgs.step = "summary"
    /\ Len(promptArgs.user) = NumSteps + 1
    /\ \A i \in 3..Len(promptArgs.user) :
           /\ promptArgs.user[i].part = "json"
           /\ promptArgs.user[i].key = analysisStepOrder[i - 2]

=============================================================================
